---- MODULE Spec2Model ----
(***************************************************************************)
(* A model of the canopy random forest library: the forest engine          *)
(* (randomForestBase), bound to the classifier specialization with the     *)
(* discreteDistribution as node and output distribution.                   *)
(*                                                                         *)
(* Floats are integers in units of 1/FloatOne; a text file is a sequence   *)
(* of lines, a line a sequence of tokens; a std::string is the sequence of *)
(* its space separated words.                                              *)
(***************************************************************************)
EXTENDS Integers, Sequences, FiniteSets, TLC

VARIABLES
    obj,      \* the forest objects: object id -> the members of the object
    files,    \* the file system: file name -> the lines of the file
    last,     \* the last call made: its name, arguments, result and the object before it
    calls,    \* number of calls made so far (each specification bounds it)
    tlog,     \* ghost: per object and tree, what train() did (the root bag, ...)
    pc,       \* position of each parallel worker of the running call
    loc,      \* the locals of each parallel worker
    shared,   \* the variables of the running call that its workers share
    access,   \* ghost: which workers read / wrote each member shared by the workers
    out       \* the caller's output containers of the prediction calls

vars == <<obj, files, last, calls, tlog, pc, loc, shared, access, out>>

----------------------------------------------------------------------------
(* Bounds of the model.                                                    *)

MaxTrees == 2
MaxLevels == 3
NumSamples == 4
MaxCalls == 4

----------------------------------------------------------------------------
(* Floats and their text form.                                             *)

\* One unit of a float is 10^-7: a float carries about 7 decimal digits.
FloatOne == 10 ^ 7

\* std::numeric_limits<float>::max(), above every impurity of the model
FloatMax == 2000000000

RECURSIVE NumDigits(_)
NumDigits(x) == IF x < 10 THEN 1 ELSE 1 + NumDigits(x \div 10)

\* operator<< of a float: the default precision of a stream is 6
\* significant digits, rounded to nearest.
StreamPrecision == 6

PrintMagnitude(x) ==
    LET dg == NumDigits(x)
        p  == IF dg > StreamPrecision THEN 10 ^ (dg - StreamPrecision) ELSE 1
    IN  ((x + (p \div 2)) \div p) * p

\* The number a float is printed as (in units of 1/FloatOne).
PrintFloat(x) == IF x < 0 THEN 0 - PrintMagnitude(0 - x) ELSE PrintMagnitude(x)

\* An int is printed in full.
PrintInt(i) == i * FloatOne

----------------------------------------------------------------------------
(* Tokens, strings and input streams.                                      *)

Num(v) == [n |-> v]
Word(s) == [w |-> s]
IsNum(tok) == "n" \in DOMAIN tok

\* The rest ".ddd" of a number token whose whole part an int read took.
Rest(v) == [fr |-> v]
IsRest(tok) == "fr" \in DOMAIN tok

\* A stream over the lines of a file: the line and the token the next read
\* starts at, and the fail bit.
OpenStream(lines) == [lines |-> lines, ln |-> 1, tk |-> 1, fail |-> FALSE]

\* Skip white space (line ends included) up to the next token.
RECURSIVE SkipWs(_)
SkipWs(s) ==
    IF s.ln > Len(s.lines) THEN s
    ELSE IF s.tk > Len(s.lines[s.ln]) THEN SkipWs([s EXCEPT !.ln = s.ln + 1, !.tk = 1])
    ELSE s

\* std::getline(stream, str): the rest of the current line. On a failed
\* stream nothing is read and str is left alone; at the end of the file str
\* is erased and the fail bit is set.
GetLine(s, old) ==
    IF s.fail THEN [s |-> s, str |-> old]
    ELSE IF s.ln > Len(s.lines) THEN [s |-> [s EXCEPT !.fail = TRUE], str |-> <<>>]
    ELSE [s   |-> [s EXCEPT !.ln = s.ln + 1, !.tk = 1],
          str |-> SubSeq(s.lines[s.ln], s.tk, Len(s.lines[s.ln]))]

\* The stream after std::getline
SkipLine(s) == GetLine(s, <<>>).s

Failed(s) == [s |-> [s EXCEPT !.fail = TRUE], v |-> 0]

Took(s, v) == [s |-> [s EXCEPT !.tk = s.tk + 1], v |-> v]

\* stream >> x for a float x, the white space skipped and the token tok next
ReadNumTok(s, tok) ==
    IF IsNum(tok) THEN Took(s, tok.n)
    ELSE IF IsRest(tok) THEN Took(s, tok.fr)
    ELSE Failed(s)

ReadNumAt(s) ==
    IF s.ln > Len(s.lines) THEN Failed(s) ELSE ReadNumTok(s, s.lines[s.ln][s.tk])

\* stream >> x for a float x. A failed stream leaves x alone; a token that
\* is no number, or the end of the file, sets the fail bit and x to 0.
ReadNum(s, old) == IF s.fail THEN [s |-> s, v |-> old] ELSE ReadNumAt(SkipWs(s))

\* stream >> i for an int i, the white space skipped and the token tok
\* next: the digits of the token up to a decimal point are taken, the rest
\* of the token stays in the stream.
ReadIntTok(s, tok) ==
    IF ~IsNum(tok) THEN Failed(s)
    ELSE IF tok.n % FloatOne = 0 THEN Took(s, tok.n \div FloatOne)
    ELSE [s |-> [s EXCEPT !.lines[s.ln][s.tk] = Rest(tok.n % FloatOne)],
          v |-> tok.n \div FloatOne]

ReadIntAt(s) ==
    IF s.ln > Len(s.lines) THEN Failed(s) ELSE ReadIntTok(s, s.lines[s.ln][s.tk])

\* stream >> i for an int i
ReadInt(s, old) == IF s.fail THEN [s |-> s, v |-> old] ELSE ReadIntAt(SkipWs(s))

\* stream >> b for a bool b, r the int read: the int must be 0 or 1
ReadBoolOf(r) ==
    IF r.s.fail THEN [s |-> r.s, v |-> FALSE]
    ELSE IF r.v \in {0, 1} THEN [s |-> r.s, v |-> (r.v = 1)]
    ELSE [s |-> [r.s EXCEPT !.fail = TRUE], v |-> TRUE]

\* stream >> b for a bool b
ReadBool(s, old) == IF s.fail THEN [s |-> s, v |-> old] ELSE ReadBoolOf(ReadIntAt(SkipWs(s)))

PrintBool(b) == PrintInt(IF b THEN 1 ELSE 0)

----------------------------------------------------------------------------
(* Sequence helpers (std::vector).                                         *)

\* vector::resize: the first n elements are kept, new ones are d.
Resize(v, n, d) == [i \in 1..n |-> IF i <= Len(v) THEN v[i] ELSE d]

Pow2(k) == 2 ^ k

\* int(std::pow(2, k) - c), k possibly negative
Pow2Minus(k, c) == IF k >= 0 THEN Pow2(k) - c ELSE IF c >= 2 THEN 1 - c ELSE 0

RECURSIVE SumSeq(_)
SumSeq(v) == IF v = <<>> THEN 0 ELSE Head(v) + SumSeq(Tail(v))

RECURSIVE Flatten(_)
Flatten(v) == IF v = <<>> THEN <<>> ELSE Head(v) \o Flatten(Tail(v))

----------------------------------------------------------------------------
(* discreteDistribution                                                    *)

\* discreteDistribution(): no classes
defaultDist == [n_classes |-> 0, prob |-> <<>>]

\* discreteDistribution::initialise
distInitialise(d, num_classes) ==
    [n_classes |-> num_classes, prob |-> [c \in 1..num_classes |-> 0]]

\* discreteDistribution::reset
distReset(d) == [d EXCEPT !.prob = [c \in 1..Len(d.prob) |-> 0]]

\* discreteDistribution::fit on the labels of a bag
distFit(d, labs) ==
    IF Len(labs) = 0
    THEN [d EXCEPT !.prob = [c \in 1..Len(d.prob) |-> FloatOne \div d.n_classes]]
    ELSE [d EXCEPT !.prob = [c \in 1..Len(d.prob) |->
              (Cardinality({i \in 1..Len(labs) : labs[i] = c - 1}) * FloatOne) \div Len(labs)]]

\* discreteDistribution::pdf
distPdf(d, x) == d.prob[x + 1]

\* discreteDistribution::combineWith
distCombineWith(d, other) ==
    [d EXCEPT !.prob = [c \in 1..Len(d.prob) |->
        IF c <= d.n_classes THEN d.prob[c] + other.prob[c] ELSE d.prob[c]]]

\* The float quotient p / q of two floats, by long division (the product
\* p * FloatOne would leave the range of the integers of the checker).
RECURSIVE FracDigits(_, _, _)
FracDigits(r, q, k) ==
    IF k = 0 THEN 0
    ELSE ((r * 10) \div q) * (10 ^ (k - 1)) + FracDigits((r * 10) % q, q, k - 1)

DivFloat(p, q) == (p \div q) * FloatOne + FracDigits(p % q, q, 7)

\* prob[c] /= sum for every class c
distDivide(d, sum) ==
    [d EXCEPT !.prob = [c \in 1..Len(d.prob) |->
        IF c <= d.n_classes /\ sum # 0 THEN DivFloat(d.prob[c], sum) ELSE d.prob[c]]]

\* discreteDistribution::normalise (a sum of 0 is not met: every forest of
\* the model has a tree, and every leaf distribution sums to 1)
distNormalise(d) == distDivide(d, SumSeq(SubSeq(d.prob, 1, d.n_classes)))

\* The product of two floats (in parts, to stay within the integers of the
\* checker).
MulFloat(a, b) ==
    (a \div 10000) * (b \div 1000)
    + ((a % 10000) * (b \div 1000)) \div 10000
    + ((a \div 10000) * (b % 1000)) \div 1000
    + ((a % 10000) * (b % 1000)) \div FloatOne

\* std::exp(x), x >= 0: the sum of the terms x^k / k! from the k-th on, as
\* far as they are not zero in the floats of the model.
RECURSIVE expFrom(_, _, _)
expFrom(x, term, k) ==
    IF term = 0 THEN 0 ELSE term + expFrom(x, MulFloat(term, x) \div k, k + 1)

Exp(x) == expFrom(x, FloatOne, 1)

\* prob[c] = std::exp(prob[c] / T) for every class c
distExp(d, T) ==
    [d EXCEPT !.prob = [c \in 1..Len(d.prob) |->
        IF c <= d.n_classes THEN Exp(DivFloat(d.prob[c], T)) ELSE d.prob[c]]]

\* discreteDistribution::raiseDistributionTemperature
raiseDistributionTemperature(d, T) ==
    IF T > 0 THEN distNormalise(distExp(d, T)) ELSE d

\* discreteDistribution::printOut: the probabilities in class order
distPrintOut(d) == [c \in 1..d.n_classes |-> Num(PrintFloat(d.prob[c]))]

\* discreteDistribution::readIn: n_classes floats
RECURSIVE distReadInFrom(_, _, _)
RECURSIVE distReadInNext(_, _, _)
distReadInFrom(s, d, c) ==
    IF c > d.n_classes THEN [s |-> s, d |-> d]
    ELSE distReadInNext(d, c, ReadNum(s, d.prob[c]))

distReadInNext(d, c, r) == distReadInFrom(r.s, [d EXCEPT !.prob[c] = r.v], c + 1)

distReadIn(s, d) == distReadInFrom(s, d, 1)

----------------------------------------------------------------------------
(* The nodes, the trees and the forest object.                             *)

\* The number of parameters of the feature functor (classifier<1>).
TNumParams == 1

\* node(): is_leaf(false), thresh(0.0), no distribution. (The params of a
\* fresh node are never read before they are written; they are zero here.)
defaultNode ==
    [params |-> [p \in 1..TNumParams |-> 0], is_leaf |-> FALSE, thresh |-> 0, post |-> <<>>]

defaultTree == [nodes |-> <<>>]

\* std::default_random_engine (minstd_rand0): x <- 16807 x mod (2^31 - 1),
\* computed without overflow by Schrage's method.
EngineNext(x) ==
    LET m == 2147483647
        v == 16807 * (x % 127773) - 2836 * (x \div 127773)
    IN  IF v < 0 THEN v + m ELSE v

\* rand_engine.seed(rd()): a seed that is 0 mod (2^31 - 1) becomes 1.
EngineSeed(sd) == IF sd % 2147483647 = 0 THEN 1 ELSE sd % 2147483647

\* randomForestBase::allocateForestMemory
allocateForestMemory(o) ==
    [o EXCEPT !.n_nodes = Pow2Minus(o.n_levels + 1, 1),
              !.forest = [t \in 1..o.n_trees |->
                  [nodes |-> Resize(IF t <= Len(o.forest) THEN o.forest[t].nodes ELSE <<>>,
                                    Pow2Minus(o.n_levels + 1, 1), defaultNode)]]]

\* randomForestBase::initialise
initialise(o, sd) ==
    [o EXCEPT !.valid = FALSE, !.rand_engine = EngineSeed(sd),
              !.feature_header = <<>>, !.feature_string = <<>>, !.forest = <<>>]

\* C_DEFAULT_MIN_INFO_GAIN = 0.05
C_DEFAULT_MIN_INFO_GAIN == FloatOne \div 20

\* The storage of an object before its constructor ran. The members that no
\* constructor sets (fit_split_nodes always; n_trees, n_levels and n_nodes
\* in the default constructor) are given by the caller of this operator.
rawObject(nt, nl, fsn) ==
    [n_trees |-> nt, n_levels |-> nl, n_nodes |-> 0, valid |-> FALSE,
     fit_split_nodes |-> fsn, forest |-> <<>>,
     feature_header |-> <<>>, feature_string |-> <<>>, rand_engine |-> 1,
     n_classes |-> 0, class_names |-> <<>>, xlogx_precalc |-> <<>>,
     min_info_gain |-> C_DEFAULT_MIN_INFO_GAIN]

\* classifier::classifier(num_classes, num_trees, num_levels)
classifierFull(num_classes, num_trees, num_levels, fsn, sd) ==
    [allocateForestMemory(initialise(rawObject(num_trees, num_levels, fsn), sd))
        EXCEPT !.n_classes = num_classes]

\* classifier::classifier()
classifierDefault(fsn, sd) == initialise(rawObject(0, 0, fsn), sd)

\* randomForestBase::isValid
isValid(o) == o.valid

\* randomForestBase::setFeatureDefinitionString
setFeatureDefinitionString(o, header_str, feat_str) ==
    [o EXCEPT !.feature_header = header_str, !.feature_string = feat_str]

\* classifier::setClassNames
setClassNames(o, new_class_names) == [o EXCEPT !.class_names = new_class_names]

\* classifier::getClassNames
getClassNames(o) == o.class_names

\* classifier::getNumberClasses
getNumberClasses(o) == o.n_classes

\* classifier::initialiseNodeDist on the distribution post[0] of a node
initialiseNodeDist(o, d) == distInitialise(d, o.n_classes)

----------------------------------------------------------------------------
(* Training: the caller's functors.                                        *)

\* The ids the caller trains on are the even numbers: first_id[i] = 2 i.
\* (The odd ids are met in prediction only.)
TrainId(i) == 2 * i

\* The feature functor of the caller (its groupwise and its single form give
\* the same score): feature 0 gives every training id its own score, feature
\* 1 gives pairs of training ids the same score, feature 3 gives the
\* training ids neighbouring floats (as 16777216, 16777218, ... are), every
\* other feature gives all ids the same score.
FeatureScore(id, params) ==
    CASE params[1] = 0 -> id * (FloatOne \div 2)
      [] params[1] = 1 -> (id \div 4) * FloatOne
      [] params[1] = 3 -> FloatOne + (id \div 2)
      [] OTHER -> 0

\* The parameter functor of the caller: a generator that keeps one counter
\* per calling thread (tree), so that the k-th call made for tree t does not
\* depend on the other trees. pseed selects the generator; the generator 3
\* gives feature 3 at every call.
parameter_functor(pseed, t, k) ==
    [p \in 1..TNumParams |-> IF pseed = 3 THEN 3 ELSE (pseed + t + k) % 3]

\* The label vectors the caller trains on.
LabelPatterns == {"alt", "half", "zero"}
LabelsOf(pattern, num_ids) ==
    [i \in 1..num_ids |->
        CASE pattern = "alt"  -> (i - 1) % 2
          [] pattern = "half" -> IF (i - 1) < num_ids \div 2 THEN 0 ELSE 1
          [] OTHER -> 0]

----------------------------------------------------------------------------
(* Training: the classifier's callbacks.                                   *)

\* round(10^7 * x * ln x), x = 0..9
XLogXTable ==
    <<0, 0, 13862944, 32958369, 55451774, 80471896, 107505568, 136213710,
      166355323, 197750212>>

\* randomForestBase::preCalculateXlogX
preCalculateXlogX(N) ==
    IF N < 1 THEN <<>> ELSE [i \in 1..(N + 1) |-> XLogXTable[i]]

\* classifier::trainingPrecalculations
trainingPrecalculations(o, num_ids) ==
    [o EXCEPT !.xlogx_precalc = preCalculateXlogX(num_ids)]

\* classifier::cleanupPrecalculations
cleanupPrecalculations(o) == [o EXCEPT !.xlogx_precalc = <<>>]

\* The labels of the members of a bag (the permutation iterator).
BagLabels(labels, bag) == [i \in 1..Len(bag) |-> labels[bag[i] + 1]]

CountLabel(labs, b) == Cardinality({i \in 1..Len(labs) : labs[i] = b})

\* randomForestBase::fastDiscreteEntropy
fastDiscreteEntropy(internal_index, n_labels, labels, xlogx) ==
    (xlogx[Len(internal_index) + 1]
       - SumSeq([b \in 1..n_labels |->
                    xlogx[CountLabel(BagLabels(labels, internal_index), b - 1) + 1]]))
    \div Len(internal_index)

\* classifier::singleNodeImpurity
singleNodeImpurity(o, labels, bag) ==
    fastDiscreteEntropy(bag, o.n_classes, labels, o.xlogx_precalc)

\* classifier::minInfoGain
minInfoGain(o) == o.min_info_gain

----------------------------------------------------------------------------
(* Training: the split search.                                             *)

\* scoreInternalIndexStruct
scoreInternalIndexStruct(score, id) == [score |-> score, id |-> id]

\* std::sort by score (equal scores keep their order here; the split found
\* does not depend on the order of equal scores)
RECURSIVE InsertByScore(_, _)
InsertByScore(v, e) ==
    IF v = <<>> THEN <<e>>
    ELSE IF e.score < Head(v).score THEN <<e>> \o v
    ELSE <<Head(v)>> \o InsertByScore(Tail(v), e)

RECURSIVE SortByScore(_)
SortByScore(v) ==
    IF v = <<>> THEN <<>>
    ELSE InsertByScore(SortByScore(SubSeq(v, 1, Len(v) - 1)), v[Len(v)])

\* fastDiscreteEntropySplit, the two histograms at the start: the first
\* data point is on the left, all others are on the right.
splitStart(ds, n_labels, labels) ==
    [left_binned  |-> [b \in 1..n_labels |-> IF labels[ds[1].id + 1] = b - 1 THEN 1 ELSE 0],
     right_binned |-> [b \in 1..n_labels |->
                          Cardinality({d \in 2..Len(ds) : labels[ds[d].id + 1] = b - 1})],
     left_partial |-> 0, right_partial |-> 0,
     best_children_impurity |-> FloatMax, best_d |-> -1]

\* fastDiscreteEntropySplit, the initial sum of the right partial terms
splitRightPartial(s, xlogx) ==
    [s EXCEPT !.right_partial =
        SumSeq([b \in 1..Len(s.right_binned) |-> xlogx[s.right_binned[b] + 1]])]

\* fastDiscreteEntropySplit, the first partition (d = 0)
splitFirst(ds, xlogx, s) ==
    IF ds[1].score = ds[2].score THEN s
    ELSE [s EXCEPT !.best_children_impurity =
                       ((0 - s.left_partial) + xlogx[2])
                       + ((0 - s.right_partial) + xlogx[Len(ds)]),
                   !.best_d = 0]

\* The loop of fastDiscreteEntropySplit: the label b of data point d moves
\* from the right histogram to the left one.
splitMoveBins(s, b) ==
    [s EXCEPT !.right_binned[b + 1] = @ - 1, !.left_binned[b + 1] = @ + 1]

\* The loop of fastDiscreteEntropySplit: the running partial sums follow.
splitMovePartials(s, b, xlogx) ==
    [s EXCEPT !.left_partial  = @ + xlogx[s.left_binned[b + 1] + 1] - xlogx[s.left_binned[b + 1]],
              !.right_partial = @ + xlogx[s.right_binned[b + 1] + 1]
                                  - xlogx[s.right_binned[b + 1] + 2]]

\* The loop of fastDiscreteEntropySplit: the impurity of the partition
\* after data point d replaces the best one if it is smaller.
splitKeepBest(s, d, this_children_impurity) ==
    IF this_children_impurity < s.best_children_impurity
    THEN [s EXCEPT !.best_children_impurity = this_children_impurity, !.best_d = d]
    ELSE s

\* The loop of fastDiscreteEntropySplit: no split between equal scores.
splitConsider(ds, xlogx, s, d) ==
    IF ds[d + 1].score = ds[d + 2].score THEN s
    ELSE splitKeepBest(s, d, ((0 - s.left_partial) + xlogx[d + 2])
                             + ((0 - s.right_partial) + xlogx[Len(ds) - d]))

\* The loop over d = 1 .. n_data-2 of fastDiscreteEntropySplit
RECURSIVE entropySplitLoop(_, _, _, _, _)
entropySplitLoop(ds, labels, xlogx, s, d) ==
    IF d >= Len(ds) - 1 THEN s
    ELSE entropySplitLoop(ds, labels, xlogx,
            splitConsider(ds, xlogx,
                splitMovePartials(splitMoveBins(s, labels[ds[d + 1].id + 1]),
                                  labels[ds[d + 1].id + 1], xlogx),
                d),
            d + 1)

\* 0.5 * (a + b) in floats: a sum that no float holds is rounded to the
\* neighbour with the even mantissa.
HalfOf(sum) ==
    IF sum % 2 = 0 THEN sum \div 2
    ELSE IF (sum \div 2) % 2 = 0 THEN sum \div 2 ELSE (sum \div 2) + 1

\* The values fastDiscreteEntropySplit returns, and whether its assertion
\* holds.
splitResult(ds, s) ==
    [best_d |-> s.best_d,
     asserted |-> (s.best_d >= 0 /\ s.best_d < Len(ds) - 1),
     best_split_impurity |-> s.best_children_impurity,
     thresh |-> IF s.best_d >= 0
                THEN HalfOf(ds[s.best_d + 1].score + ds[s.best_d + 2].score)
                ELSE 0]

\* randomForestBase::fastDiscreteEntropySplit
fastDiscreteEntropySplit(ds, n_labels, labels, xlogx) ==
    splitResult(ds,
        entropySplitLoop(ds, labels, xlogx,
            splitFirst(ds, xlogx, splitRightPartial(splitStart(ds, n_labels, labels), xlogx)),
            1))

\* classifier::bestSplit, r what fastDiscreteEntropySplit returned
bestSplitOf(N, initial_impurity, r) ==
    [info_gain |-> initial_impurity - (r.best_split_impurity \div N),
     thresh |-> r.thresh, best_d |-> r.best_d, asserted |-> r.asserted]

\* classifier::bestSplit
bestSplit(o, ds, labels, initial_impurity) ==
    bestSplitOf(Len(ds), initial_impurity,
                fastDiscreteEntropySplit(ds, o.n_classes, labels, o.xlogx_precalc))

\* std::numeric_limits<float>::min(): below one unit of the model's floats
FloatMin == 0

\* A pass in which a trial of equal gain replaces the best one.
trialSplitOrEqual(b, test_params, score, r) ==
    IF r.info_gain >= b.best_info_gain
    THEN [b EXCEPT !.best_params = test_params, !.best_thresh = r.thresh,
                   !.best_info_gain = r.info_gain, !.best_score = score,
                   !.asserted = @ /\ r.asserted,
                   !.tried = Append(@, [params |-> test_params, varied |-> TRUE,
                                        info_gain |-> r.info_gain, thresh |-> r.thresh])]
    ELSE [b EXCEPT !.asserted = @ /\ r.asserted,
                   !.tried = Append(@, [params |-> test_params, varied |-> TRUE,
                                        info_gain |-> r.info_gain, thresh |-> r.thresh])]

\* A pass that keeps the scores of every trial that was not skipped.
trialSplitLastScore(b, test_params, score, r) ==
    IF r.info_gain > b.best_info_gain
    THEN [b EXCEPT !.best_params = test_params, !.best_thresh = r.thresh,
                   !.best_info_gain = r.info_gain, !.best_score = score,
                   !.asserted = @ /\ r.asserted,
                   !.tried = Append(@, [params |-> test_params, varied |-> TRUE,
                                        info_gain |-> r.info_gain, thresh |-> r.thresh])]
    ELSE [b EXCEPT !.asserted = @ /\ r.asserted, !.best_score = score,
                   !.tried = Append(@, [params |-> test_params, varied |-> TRUE,
                                        info_gain |-> r.info_gain, thresh |-> r.thresh])]

\* A pass of the loop over the parameter combinations in train(), after
\* bestSplit: the best trial so far is replaced by a strictly better one.
trialSplit(b, test_params, score, r) ==
    IF r.info_gain > b.best_info_gain
    THEN [b EXCEPT !.best_params = test_params, !.best_thresh = r.thresh,
                   !.best_info_gain = r.info_gain, !.best_score = score,
                   !.asserted = @ /\ r.asserted,
                   !.tried = Append(@, [params |-> test_params, varied |-> TRUE,
                                        info_gain |-> r.info_gain, thresh |-> r.thresh])]
    ELSE [b EXCEPT !.asserted = @ /\ r.asserted,
                   !.tried = Append(@, [params |-> test_params, varied |-> TRUE,
                                        info_gain |-> r.info_gain, thresh |-> r.thresh])]

\* A pass of the loop over the parameter combinations, after the sort: a
\* parameter set under which the scores do not vary is skipped.
trialSorted(o, tin, initial_impurity, b, test_params, score, data_structs) ==
    IF data_structs[Len(data_structs)].score - data_structs[1].score
          <= FloatMin * Len(data_structs)
    THEN [b EXCEPT !.failed_counter = @ + 1,
                   !.tried = Append(@, [params |-> test_params, varied |-> FALSE,
                                        info_gain |-> 0, thresh |-> 0])]
    ELSE trialSplit(b, test_params, score,
                    bestSplit(o, data_structs, tin.labels, initial_impurity))

\* A pass of the loop over the parameter combinations, after the call of
\* the feature functor
trialScored(o, tin, bag, initial_impurity, b, test_params, score) ==
    trialSorted(o, tin, initial_impurity, b, test_params, score,
        SortByScore([d \in 1..Len(bag) |-> scoreInternalIndexStruct(score[d], bag[d])]))

\* A pass of the loop over the parameter combinations, after the call of
\* the parameter functor
trialWith(o, tin, bag, initial_impurity, b, test_params) ==
    trialScored(o, tin, bag, initial_impurity, b, test_params,
        [d \in 1..Len(bag) |-> FeatureScore(TrainId(bag[d]), test_params)])

\* One pass of the loop over the parameter combinations in train(). b holds
\* best_info_gain, best_thresh, best_params, best_score, failed_counter, the
\* number k of calls made to the parameter functor for this tree, and
\* (ghost) the trials made.
trial(o, tin, t, bag, initial_impurity, b) ==
    trialWith(o, tin, bag, initial_impurity, [b EXCEPT !.k = @ + 1],
              parameter_functor(tin.pseed, t, b.k))

RECURSIVE trials(_, _, _, _, _, _, _)
trials(o, tin, t, bag, initial_impurity, b, p) ==
    IF p >= tin.num_param_combos_to_test THEN b
    ELSE trials(o, tin, t, bag, initial_impurity,
                trial(o, tin, t, bag, initial_impurity, b), p + 1)

----------------------------------------------------------------------------
(* Training: the node loop.                                                *)

\* fitLeaf: the children of a leaf above the bottom layer are marked leaf.
fitLeafChildren(o, nodes, n) ==
    IF 2 * n + 2 < o.n_nodes
    THEN [nodes EXCEPT ![2 * n + 2].is_leaf = TRUE, ![2 * n + 3].is_leaf = TRUE]
    ELSE nodes

\* A fitLeaf that fits a distribution also under a leaf.
fitLeafPostAlways(o, nodes, n, nodebag, labels) ==
    [nodes EXCEPT ![n + 1].post =
        <<distFit(initialiseNodeDist(o, defaultDist), BagLabels(labels, nodebag))>>]

\* A fitLeaf that fits no distribution.
fitLeafPostNone(o, nodes, n, nodebag, labels) == nodes

\* fitLeaf: a distribution is fitted unless the parent is a leaf.
fitLeafPost(o, nodes, n, nodebag, labels) ==
    IF (n = 0) \/ ~nodes[((n - 1) \div 2) + 1].is_leaf
    THEN [nodes EXCEPT ![n + 1].post =
             <<distFit(initialiseNodeDist(o, defaultDist), BagLabels(labels, nodebag))>>]
    ELSE nodes

\* randomForestBase::fitLeaf on the nodes of tree t
fitLeaf(o, nodes, n, nodebag, labels) ==
    fitLeafChildren(o,
        fitLeafPost(o,
            [nodes EXCEPT ![n + 1].params = [p \in 1..TNumParams |-> -1],
                          ![n + 1].thresh = 0,
                          ![n + 1].is_leaf = TRUE],
            n, nodebag, labels),
        n)

\* n > std::pow(2, n_levels - 1) - 2, in doubles
BeyondSplitDepth(n, n_levels) ==
    IF n_levels >= 1 THEN n > Pow2(n_levels - 1) - 2 ELSE TRUE

\* A partition that sends a score equal to the threshold to the left child.
ChildBagOrEqual(bag, best_score, thresh, left) ==
    SelectSeq([d \in 1..Len(bag) |-> [id |-> bag[d], l |-> best_score[d] <= thresh]],
              LAMBDA e : e.l = left)

\* The members of a bag that go to the left child (best_score[d] < thresh)
\* or to the right child.
ChildBag(bag, best_score, thresh, left) ==
    SelectSeq([d \in 1..Len(bag) |-> [id |-> bag[d], l |-> best_score[d] < thresh]],
              LAMBDA e : e.l = left)

BagIds(v) == [d \in 1..Len(v) |-> v[d].id]

\* What train() did at a node (ghost).
NotDone == [kind |-> "none", searched |-> FALSE, bag |-> <<>>,
            tried |-> <<>>, left |-> <<>>, right |-> <<>>]

\* The node loop of train(): node n becomes a leaf.
leafNode(o, tin, st, n, searched, tried) ==
    [st EXCEPT !.nodes = fitLeaf(o, st.nodes, n, st.nodebag[n + 1], tin.labels),
               !.nodebag[n + 1] = <<>>,
               !.did[n + 1] = [kind |-> "leaf", searched |-> searched,
                               bag |-> st.nodebag[n + 1], tried |-> tried,
                               left |-> <<>>, right |-> <<>>]]

\* The node loop of train(): node n becomes a split node, lbag and rbag are
\* the members of its bag sent to its children.
splitNodeInto(o, tin, st, n, b, lbag, rbag) ==
    [st EXCEPT !.nodes[n + 1] =
                   [params |-> b.best_params, is_leaf |-> FALSE, thresh |-> b.best_thresh,
                    post |-> IF o.fit_split_nodes
                             THEN <<distFit(initialiseNodeDist(o, defaultDist),
                                            BagLabels(tin.labels, st.nodebag[n + 1]))>>
                             ELSE <<>>],
               !.nodebag[2 * n + 2] = @ \o lbag,
               !.nodebag[2 * n + 3] = @ \o rbag,
               !.nodebag[n + 1] = <<>>,
               !.nonempty = @ /\ lbag # <<>> /\ rbag # <<>>,
               !.did[n + 1] = [kind |-> "split", searched |-> TRUE,
                               bag |-> st.nodebag[n + 1], tried |-> b.tried,
                               left |-> lbag, right |-> rbag]]

splitNode(o, tin, st, n, b) ==
    splitNodeInto(o, tin, st, n, b,
        BagIds(ChildBag(st.nodebag[n + 1], b.best_score, b.best_thresh, TRUE)),
        BagIds(ChildBag(st.nodebag[n + 1], b.best_score, b.best_thresh, FALSE)))

\* A node loop that also splits at a gain equal to the threshold.
searchedNodeOrEqual(o, tin, st, n, b) ==
    IF b.best_info_gain >= minInfoGain(o)
       /\ b.failed_counter < tin.num_param_combos_to_test
    THEN splitNode(o, tin, st, n, b)
    ELSE leafNode(o, tin, st, n, TRUE, b.tried)

\* The node loop of train(), after the loop over the parameter combinations
searchedNode(o, tin, st, n, b) ==
    IF b.best_info_gain > minInfoGain(o)
       /\ b.failed_counter < tin.num_param_combos_to_test
    THEN splitNode(o, tin, st, n, b)
    ELSE leafNode(o, tin, st, n, TRUE, b.tried)

\* The locals of the node loop before the loop over the parameter
\* combinations
trialsStart(st) ==
    [best_info_gain |-> 0 - FloatMax, best_thresh |-> 0,
     best_params |-> [p \in 1..TNumParams |-> -1],
     best_score |-> st.best_score, failed_counter |-> 0,
     k |-> st.k, asserted |-> st.asserted, tried |-> <<>>]

\* The locals of the tree loop that the loop over the parameter
\* combinations changed
trialsEnd(st, b) ==
    [st EXCEPT !.best_score = b.best_score, !.k = b.k, !.asserted = b.asserted]

searchNode(o, tin, st, n, b) == searchedNode(o, tin, trialsEnd(st, b), n, b)

\* One pass of the node loop of train() for node n of tree t. st holds the
\* nodes of the tree, the bags, best_score, the number k of calls made to
\* the parameter functor, whether the assertions held, and (ghost) what was
\* done at each node.
trainNode(o, tin, t, st, n) ==
    IF BeyondSplitDepth(n, o.n_levels)
       \/ Len(st.nodebag[n + 1]) < tin.min_training_data
       \/ st.nodes[n + 1].is_leaf
    THEN leafNode(o, tin, st, n, FALSE, <<>>)
    ELSE searchNode(o, tin, st, n,
             trials(o, tin, t, st.nodebag[n + 1],
                    singleNodeImpurity(o, tin.labels, st.nodebag[n + 1]),
                    trialsStart(st), 0))

RECURSIVE trainNodes(_, _, _, _, _)
trainNodes(o, tin, t, st, n) ==
    IF n >= o.n_nodes \/ n >= Len(st.nodes) THEN st     \* a tree holds n_nodes nodes
    ELSE trainNodes(o, tin, t, trainNode(o, tin, t, st, n), n + 1)

\* The body of the tree loop of train() after the root bag is chosen: the
\* node loop of tree t, from the nodes the tree holds when train() starts.
growTree(o, tin, t, rootbag) ==
    trainNodes(o, tin, t,
        [nodes |-> o.forest[t + 1].nodes,
         nodebag |-> [n \in 1..o.n_nodes |-> IF n = 1 THEN rootbag ELSE <<>>],
         best_score |-> <<>>, k |-> 0, asserted |-> TRUE, nonempty |-> TRUE,
         did |-> [n \in 1..o.n_nodes |-> NotDone]], 0)

----------------------------------------------------------------------------
(* Training: the bags.                                                     *)

Swap(v, i, j) == [v EXCEPT ![i] = v[j], ![j] = v[i]]

\* std::iota(nodebag[0].begin(), nodebag[0].end(), 0)
Iota(num) == [i \in 1..num |-> i - 1]

\* One step of std::shuffle: the element at position i (from 0) is swapped
\* with the one at a position drawn from 0..i with the value x of the engine.
shuffleStep(v, i, x) == Swap(v, i + 1, (x % (i + 1)) + 1)

\* std::shuffle(first, last, rand_engine), one draw per position
RECURSIVE shuffleFrom(_, _, _)
RECURSIVE shuffleDraw(_, _, _)
shuffleFrom(v, eng, i) ==
    IF i >= Len(v) THEN [v |-> v, eng |-> eng] ELSE shuffleDraw(v, EngineNext(eng), i)

shuffleDraw(v, x, i) == shuffleFrom(shuffleStep(v, i, x), x, i + 1)

\* const int bagsize = bagging ? num_ids*bag_proportion : num_ids
BagSize(tin) ==
    IF tin.bagging THEN (tin.num_ids * tin.bag_proportion) \div FloatOne ELSE tin.num_ids

\* The check of bag_proportion at the start of train()
BagProportionRejected(tin) ==
    tin.bagging /\ (tin.bag_proportion <= 0 \/ tin.bag_proportion > FloatOne)

\* A bag whose size is rounded up.
rootBagOfRoundedUp(tin, sh) ==
    [bag |-> Resize(sh.v, (tin.num_ids * tin.bag_proportion + FloatOne - 1) \div FloatOne, 0),
     eng |-> sh.eng]

\* nodebag[0].resize(bagsize) after the shuffle
rootBagOf(tin, sh) == [bag |-> Resize(sh.v, BagSize(tin), 0), eng |-> sh.eng]

\* The root bag of a tree, and the engine after it was drawn.
rootBag(tin, eng) ==
    IF tin.bagging THEN rootBagOf(tin, shuffleFrom(Iota(tin.num_ids), eng, 1))
    ELSE [bag |-> Iota(tin.num_ids), eng |-> eng]

\* The tree loop of train(), run by one thread: tree t and the ones after it.
RECURSIVE trainTrees(_, _, _, _)
RECURSIVE trainTreeGrown(_, _, _, _, _, _)

\* The entry of the training log for a tree (ghost).
TreeLog(rootbag, g) ==
    [rootbag |-> rootbag, did |-> g.did, asserted |-> g.asserted, nonempty |-> g.nonempty]

trainTreeGrown(o, tin, t, log, rb, g) ==
    trainTrees([o EXCEPT !.rand_engine = rb.eng, !.forest[t + 1].nodes = g.nodes],
               tin, t + 1, Append(log, TreeLog(rb.bag, g)))

trainTreeWith(o, tin, t, log, rb) ==
    trainTreeGrown(o, tin, t, log, rb, growTree(o, tin, t, rb.bag))

trainTrees(o, tin, t, log) ==
    IF t >= o.n_trees THEN [o |-> o, log |-> log]
    ELSE trainTreeWith(o, tin, t, log, rootBag(tin, o.rand_engine))

\* The end of train(): cleanupPrecalculations(); valid = true
trainEnd(o) == [cleanupPrecalculations(o) EXCEPT !.valid = TRUE]

trainDone(r) == [o |-> trainEnd(r.o), log |-> r.log, done |-> TRUE]

\* train() after its first statement
trainFrom(o, tin) ==
    IF BagProportionRejected(tin) THEN [o |-> o, log |-> <<>>, done |-> FALSE]
    ELSE trainDone(trainTrees(trainingPrecalculations(o, tin.num_ids), tin, 0, <<>>))

\* randomForestBase::train, run by one thread
train(o, tin) == trainFrom([o EXCEPT !.fit_split_nodes = tin.train_split_nodes], tin)

----------------------------------------------------------------------------
(* Persistence: writeToFile.                                               *)

\* A file: whether it exists, its lines, and (ghost) the object it was
\* written from, whether the writer died and whether the write read a
\* distribution that no node held.
NoFile == [exists |-> FALSE, lines |-> <<>>, src |-> <<>>, crashed |-> FALSE,
           garbage |-> FALSE]

\* classifier::printHeaderDescription
printHeaderDescription == <<Word("n_classes"), Word("[Class"), Word("names]")>>

\* classifier::printHeaderData
printHeaderData(o) == <<Num(PrintInt(o.n_classes))>> \o Flatten(o.class_names)

\* What reading post[0] of a node that holds no distribution, or a tree
\* past the end of forest, may give (the behaviour is undefined): the
\* process dies, or some value is read.
UBOutcomes == {"crash", "garbage"}

GarbageDist(o) == [n_classes |-> o.n_classes, prob |-> [c \in 1..o.n_classes |-> 0]]

\* The lines writeToFile has flushed (std::endl) before the trees.
flushedLines(o) == << <<Word("#")>> \o o.feature_header, o.feature_string, <<>> >>

\* The lines of writeToFile before the trees.
headerLines(o) ==
    flushedLines(o)
    \o << <<Word("#"), Word("Trees"), Word("Levels"), Word("Split_Dists")>>,
          <<Num(PrintInt(o.n_trees)), Num(PrintInt(o.n_levels)),
            Num(PrintBool(o.fit_split_nodes))>>,
          <<Word("#")>> \o printHeaderDescription,
          printHeaderData(o),
          <<>> >>

\* The children of node n become orphans.
markOrphans(w, n, n_nodes) ==
    IF 2 * n + 2 < n_nodes
    THEN [w EXCEPT !.orphan_flag[2 * n + 2] = TRUE, !.orphan_flag[2 * n + 3] = TRUE]
    ELSE w

\* The line of a node that is no orphan; post is what reading the node's
\* distributions gave.
writeNodeLine(o, nd, n, w, post) ==
    IF nd.is_leaf
    THEN markOrphans([w EXCEPT !.lines = Append(@, <<Num(PrintBool(TRUE))>>
                                                   \o distPrintOut(post[1]))],
                     n, o.n_nodes)
    ELSE [w EXCEPT !.lines = Append(@,
              <<Num(PrintBool(FALSE))>>
              \o [p \in 1..TNumParams |-> Num(PrintInt(nd.params[p]))]
              \o <<Num(PrintFloat(nd.thresh))>>
              \o (IF o.fit_split_nodes THEN distPrintOut(post[1]) ELSE <<>>))]

\* post[0] is read from a node that holds no distribution.
writeNodeUB(o, nd, n, w, ub) ==
    IF ub = "crash" THEN [w EXCEPT !.crashed = TRUE, !.garbage = TRUE]
    ELSE writeNodeLine(o, nd, n, [w EXCEPT !.garbage = TRUE], <<GarbageDist(o)>>)

\* One pass of the node loop of writeToFile. w holds the lines written, the
\* orphan flags, whether the process died and whether garbage was read.
writeNode(o, nd, n, w, ub) ==
    IF w.orphan_flag[n + 1] THEN markOrphans(w, n, o.n_nodes)
    ELSE IF (nd.is_leaf \/ o.fit_split_nodes) /\ nd.post = <<>>
    THEN writeNodeUB(o, nd, n, w, ub)
    ELSE writeNodeLine(o, nd, n, w, nd.post)

RECURSIVE writeNodes(_, _, _, _, _)
writeNodes(o, t, n, w, ub) ==
    IF n >= o.n_nodes \/ w.crashed THEN w
    ELSE writeNodes(o, t, n + 1, writeNode(o, o.forest[t + 1].nodes[n + 1], n, w, ub), ub)

\* The tree loop of writeToFile
RECURSIVE writeTrees(_, _, _, _)
RECURSIVE writeTreeEnd(_, _, _, _)
writeTrees(o, t, w, ub) ==
    IF t >= o.n_trees \/ w.crashed THEN w
    ELSE IF t >= Len(o.forest)       \* forest[t] is read past the end of forest
    THEN [w EXCEPT !.crashed = (ub = "crash"), !.garbage = TRUE]
    ELSE writeTreeEnd(o, t,
             writeNodes(o, t, 0, [w EXCEPT !.orphan_flag = [n \in 1..o.n_nodes |-> FALSE]], ub),
             ub)

writeTreeEnd(o, t, w, ub) == writeTrees(o, t + 1, [w EXCEPT !.lines = Append(@, <<>>)], ub)

\* The file writeToFile leaves
writtenFile(o, w) ==
    [exists |-> TRUE, lines |-> IF w.crashed THEN flushedLines(o) ELSE w.lines,
     src |-> <<o>>, crashed |-> w.crashed, garbage |-> w.garbage]

\* randomForestBase::writeToFile
writeToFile(o, ub) ==
    writtenFile(o,
        writeTrees(o, 0, [lines |-> headerLines(o), orphan_flag |-> <<>>,
                          crashed |-> FALSE, garbage |-> FALSE], ub))

----------------------------------------------------------------------------
(* Persistence: readFromFile.                                              *)

\* classifier::readHeader: class_names is filled up to n_classes names.
RECURSIVE fillClassNames(_, _)
fillClassNames(names, n_classes) ==
    IF Len(names) >= n_classes THEN names
    ELSE fillClassNames(Append(names, <<Word("Class"), Num(PrintInt(Len(names)))>>), n_classes)

\* classifier::readHeader: the names on the line after n_classes (r is the
\* read of n_classes from the string stream of the line)
namesOn(r) ==
    IF r.s.fail THEN <<>>
    ELSE [i \in 1..(Len(r.s.lines[1]) - r.s.tk + 1) |-> <<r.s.lines[1][r.s.tk + i - 1]>>]

readHeaderCount(o, s, r) ==
    [s |-> s,
     o |-> [o EXCEPT !.n_classes = r.v,
                     !.class_names = fillClassNames(@ \o namesOn(r), r.v)]]

readHeaderLine(o, g) == readHeaderCount(o, g.s, ReadInt(OpenStream(<<g.str>>), o.n_classes))

\* classifier::readHeader: the line is read into a string stream; n_classes
\* and the names on it are read from that stream, the names are appended
\* to class_names.
readHeader(o, s) == readHeaderLine(o, GetLine(s, <<>>))

\* A reader whose last split node is one too far.
lastSplitNodeOneMore(max_depth_used) ==
    IF max_depth_used > -1 THEN Pow2(max_depth_used) - 1 ELSE -1

\* last_split_node = std::pow(2, max_depth_used) - 2
lastSplitNode(max_depth_used) == IF max_depth_used > -1 THEN Pow2(max_depth_used) - 2 ELSE -1

\* last_leaf_node = std::pow(2, max_depth_used + 1) - 2
lastLeafNode(max_depth_used) == IF max_depth_used > -1 THEN Pow2(max_depth_used + 1) - 2 ELSE -1

\* The children of node n become orphans.
markRead(r, n, n_nodes_in_file) ==
    IF 2 * n + 2 < n_nodes_in_file
    THEN [r EXCEPT !.orphan_flag[2 * n + 2] = TRUE, !.orphan_flag[2 * n + 3] = TRUE]
    ELSE r

\* A node below the depth to read: its leaf flag b is read, the rest of
\* its line is skipped.
readSkipped(r, n, n_nodes_in_file, b) ==
    IF b.v THEN markRead([r EXCEPT !.s = SkipLine(b.s)], n, n_nodes_in_file)
    ELSE [r EXCEPT !.s = SkipLine(b.s)]

\* infile >> post[0], then the check of the fail bit
readLeafDistOf(r, t, n, rd) ==
    [r EXCEPT !.s = rd.s, !.o.forest[t + 1].nodes[n + 1].post = <<rd.d>>,
              !.returned = rd.s.fail]

\* post.resize(1), initialiseNodeDist, infile >> post[0]
readLeafDist(r, t, n) ==
    readLeafDistOf(r, t, n, distReadIn(r.s, initialiseNodeDist(r.o, defaultDist)))

\* A split node at the last level to read: rt is the read of its params
\* and its threshold, which are dropped.
readForcedLeaf(r, t, n, rt) ==
    IF rt.s.fail THEN [r EXCEPT !.s = rt.s, !.returned = TRUE]
    ELSE readLeafDist([r EXCEPT !.s = rt.s, !.o.forest[t + 1].nodes[n + 1].is_leaf = TRUE],
                      t, n)

\* A split node: rt is the read of its threshold.
readThresh(r, t, n, rt) ==
    IF rt.s.fail
    THEN [r EXCEPT !.s = rt.s, !.o.forest[t + 1].nodes[n + 1].thresh = rt.v,
                   !.returned = TRUE]
    ELSE [r EXCEPT !.s = IF r.o.fit_split_nodes THEN SkipLine(rt.s) ELSE rt.s,
                   !.o.forest[t + 1].nodes[n + 1].thresh = rt.v,
                   !.o.forest[t + 1].nodes[n + 1].post = <<>>]

\* A split node: rp is the read of its params (there is one).
readParams(r, t, n, rp) ==
    IF rp.s.fail
    THEN [r EXCEPT !.s = rp.s, !.o.forest[t + 1].nodes[n + 1].params[1] = rp.v,
                   !.returned = TRUE]
    ELSE readThresh([r EXCEPT !.s = rp.s, !.o.forest[t + 1].nodes[n + 1].params[1] = rp.v],
                    t, n, ReadNum(rp.s, r.o.forest[t + 1].nodes[n + 1].thresh))

\* A node within the depth to read: b is the read of its leaf flag.
readFlag(r, t, n, max_depth_used, last_split_node, n_nodes_in_file, b) ==
    IF b.s.fail
    THEN [r EXCEPT !.s = b.s, !.o.forest[t + 1].nodes[n + 1].is_leaf = b.v,
                   !.returned = TRUE]
    ELSE IF b.v
    THEN readLeafDist(markRead([r EXCEPT !.s = b.s,
                                         !.o.forest[t + 1].nodes[n + 1].is_leaf = TRUE],
                               n, n_nodes_in_file),
                      t, n)
    ELSE IF (max_depth_used > -1) /\ (n > last_split_node)
    THEN readForcedLeaf([r EXCEPT !.s = b.s, !.o.forest[t + 1].nodes[n + 1].is_leaf = FALSE],
                        t, n, ReadNum(ReadInt(b.s, 0).s, 0))
    ELSE readParams([r EXCEPT !.s = b.s, !.o.forest[t + 1].nodes[n + 1].is_leaf = FALSE],
                    t, n, ReadInt(b.s, r.o.forest[t + 1].nodes[n + 1].params[1]))

\* One pass of the node loop of readFromFile, for node n of tree t. r holds
\* the object, the stream, the orphan flags and whether the call returned
\* false.
readNode(r, t, n, max_depth_used, last_split_node, last_leaf_node, n_nodes_in_file) ==
    IF r.orphan_flag[n + 1] THEN markRead(r, n, n_nodes_in_file)
    ELSE IF (max_depth_used > -1) /\ (n > last_leaf_node)
    THEN readSkipped(r, n, n_nodes_in_file, ReadBool(r.s, FALSE))
    ELSE readFlag(r, t, n, max_depth_used, last_split_node, n_nodes_in_file,
                  ReadBool(r.s, r.o.forest[t + 1].nodes[n + 1].is_leaf))

\* The tree loop and the node loop of readFromFile
RECURSIVE readNodes(_, _, _, _, _, _, _)
readNodes(r, t, n, max_depth_used, last_split_node, last_leaf_node, n_nodes_in_file) ==
    IF r.returned THEN r
    ELSE IF n >= n_nodes_in_file
    THEN IF t + 1 >= r.o.n_trees THEN r
         ELSE readNodes([r EXCEPT !.orphan_flag = [i \in 1..n_nodes_in_file |-> FALSE]],
                        t + 1, 0, max_depth_used, last_split_node, last_leaf_node,
                        n_nodes_in_file)
    ELSE readNodes(readNode(r, t, n, max_depth_used, last_split_node, last_leaf_node,
                            n_nodes_in_file),
                   t, n + 1, max_depth_used, last_split_node, last_leaf_node, n_nodes_in_file)

\* The end of readFromFile: valid = true; return true
readResult(r) ==
    IF r.returned THEN [o |-> r.o, ret |-> FALSE]
    ELSE [o |-> [r.o EXCEPT !.valid = TRUE], ret |-> TRUE]

\* readFromFile after allocateForestMemory
readForest(o, s, max_depth_used, n_nodes_in_file) ==
    readResult(
        IF o.n_trees <= 0
        THEN [o |-> o, s |-> s, orphan_flag |-> <<>>, returned |-> FALSE]
        ELSE readNodes([o |-> o, s |-> s,
                        orphan_flag |-> [i \in 1..n_nodes_in_file |-> FALSE],
                        returned |-> FALSE],
                       0, 0, max_depth_used, lastSplitNode(max_depth_used),
                       lastLeafNode(max_depth_used), n_nodes_in_file))

\* readFromFile after readHeader
readHeaderDone(h, max_depth_used, n_nodes_in_file) ==
    IF h.s.fail THEN [o |-> h.o, ret |-> FALSE]
    ELSE readForest(allocateForestMemory(h.o), h.s, max_depth_used, n_nodes_in_file)

\* readFromFile from the two getline calls before readHeader
readBody(o, s, max_depth_used, n_nodes_in_file) ==
    readHeaderDone(readHeader(o, SkipLine(SkipLine(s))), max_depth_used, n_nodes_in_file)

\* infile >> fit_split_nodes, and what follows up to n_levels = max_depth_used
readSplitFlagOf(o, r, max_depth_used) ==
    IF r.s.fail \/ (max_depth_used > -1 /\ ~r.v)
    THEN [o |-> [o EXCEPT !.fit_split_nodes = r.v], ret |-> FALSE]
    ELSE readBody([o EXCEPT !.fit_split_nodes = r.v,
                            !.n_levels = IF max_depth_used > -1 THEN max_depth_used ELSE @],
                  r.s, max_depth_used, Pow2Minus(o.n_levels + 1, 1))

\* infile >> n_levels, and the checks after it
readLevelsOf(o, r, max_depth_used) ==
    IF r.s.fail \/ max_depth_used > r.v
    THEN [o |-> [o EXCEPT !.n_levels = r.v], ret |-> FALSE]
    ELSE readSplitFlagOf([o EXCEPT !.n_levels = r.v],
                         ReadBool(r.s, o.fit_split_nodes), max_depth_used)

\* infile >> n_trees, and the checks after it
readTreesOf(o, r, trees_used, max_depth_used) ==
    IF r.s.fail \/ trees_used > r.v
    THEN [o |-> [o EXCEPT !.n_trees = r.v], ret |-> FALSE]
    ELSE readLevelsOf([o EXCEPT !.n_trees = IF trees_used > 0 THEN trees_used ELSE r.v],
                      ReadInt(r.s, o.n_levels), max_depth_used)

\* getline(infile, feature_string), the two getline calls after it
readFeatureString(o, g, trees_used, max_depth_used) ==
    readTreesOf([o EXCEPT !.feature_string = g.str],
                ReadInt(SkipLine(SkipLine(g.s)), o.n_trees), trees_used, max_depth_used)

\* randomForestBase::readFromFile: the object after the call and the value
\* returned
readFromFile(o, file, trees_used, max_depth_used) ==
    IF ~file.exists THEN [o |-> o, ret |-> FALSE]
    ELSE readFeatureString(o, GetLine(SkipLine(OpenStream(file.lines)), o.feature_string),
                           trees_used, max_depth_used)

----------------------------------------------------------------------------
(* Prediction.                                                             *)

\* The test of a split node: TRUE sends the data point to the left child.
\* findLeafSingle: n = (score < thresh) ? 2n+1 : 2n+2
goesLeftSingle(score, thresh) == score < thresh

\* A groupwise test that sends a score equal to the threshold to the left.
goesLeftOrEqual(score, thresh) == score <= thresh

\* findLeavesGroupwise: nextnode = (scores[d] < thresh) ? 2n+1 : 2n+2
goesLeftGroupwise(score, thresh) == score < thresh

\* randomForestBase::findLeafSingle: the index of the node whose
\* distribution is returned (-1: the walk left the node array)
RECURSIVE findLeafFrom(_, _, _, _)
findLeafFrom(o, id, treenum, n) ==
    IF n >= Len(o.forest[treenum + 1].nodes) THEN -1
    ELSE LET thisnode == o.forest[treenum + 1].nodes[n + 1] IN
         IF thisnode.is_leaf THEN n
         ELSE findLeafFrom(o, id, treenum,
                  IF goesLeftSingle(FeatureScore(id, thisnode.params), thisnode.thresh)
                  THEN 2 * n + 1 ELSE 2 * n + 2)

findLeafSingle(o, id, treenum) == findLeafFrom(o, id, treenum, 0)

\* The node loop of findLeavesGroupwise from node n. g holds nodebag_rel and
\* leaves (the index of the leaf node of each position, -1: not set).
RECURSIVE findLeavesLoop(_, _, _, _, _)
findLeavesLoop(o, ids, treenum, g, n) ==
    IF n >= o.n_nodes THEN g
    ELSE
      LET bag == g.nodebag_rel[n + 1]
          thisnode == o.forest[treenum + 1].nodes[n + 1]
      IN  IF bag = <<>> THEN findLeavesLoop(o, ids, treenum, g, n + 1)
          ELSE IF thisnode.is_leaf
          THEN findLeavesLoop(o, ids, treenum,
                  [g EXCEPT !.leaves = [d \in 1..Len(ids) |->
                        IF \E i \in 1..Len(bag) : bag[i] = d - 1 THEN n ELSE @[d]]],
                  n + 1)
          ELSE IF 2 * n + 2 >= o.n_nodes
          THEN findLeavesLoop(o, ids, treenum, g, n + 1)  \* children past the end
          ELSE
            LET scores == [d \in 1..Len(bag) |-> FeatureScore(ids[bag[d] + 1], thisnode.params)]
                side(l) == SelectSeq([d \in 1..Len(bag) |->
                                         [rel |-> bag[d],
                                          l |-> goesLeftGroupwise(scores[d], thisnode.thresh)]],
                                     LAMBDA e : e.l = l)
                rels(v) == [d \in 1..Len(v) |-> v[d].rel]
            IN  findLeavesLoop(o, ids, treenum,
                    [g EXCEPT !.nodebag_rel[2 * n + 2] = @ \o rels(side(TRUE)),
                              !.nodebag_rel[2 * n + 3] = @ \o rels(side(FALSE)),
                              !.nodebag_rel[n + 1] = <<>>],
                    n + 1)

\* randomForestBase::findLeavesGroupwise: for each position of ids the index
\* of the leaf node reached in tree treenum
findLeavesGroupwise(o, ids, treenum) ==
    findLeavesLoop(o, ids, treenum,
        [nodebag_rel |-> [n \in 1..o.n_nodes |->
                             IF n = 1 THEN [d \in 1..Len(ids) |-> d - 1] ELSE <<>>],
         leaves |-> [d \in 1..Len(ids) |-> -1]],
        0).leaves

\* The distribution a leaf pointer points to (post.data()).
LeafDist(o, treenum, n) == o.forest[treenum + 1].nodes[n + 1].post[1]

\* out.combineWith(*leaves[t]) for t = 0 .. n_trees-1
RECURSIVE combineLeaves(_, _, _, _)
combineLeaves(o, d, leafOf, t) ==
    IF t >= o.n_trees THEN d
    ELSE combineLeaves(o, distCombineWith(d, LeafDist(o, t, leafOf[t + 1])), leafOf, t + 1)

\* randomForestBase::predictDistGroupwise: the output container after the call
combineGroupwise(o, ids, outv, leaves) ==
    [d \in 1..Len(outv) |->
        IF d > Len(ids) THEN outv[d]
        ELSE distNormalise(combineLeaves(o, distReset(outv[d]),
                              [t \in 1..o.n_trees |-> leaves[t][d]], 0))]

predictDistGroupwise(o, ids, outv) ==
    combineGroupwise(o, ids, outv,
        [t \in 1..o.n_trees |-> findLeavesGroupwise(o, ids, t - 1)])

\* randomForestBase::predictDistSingle: the output container after the call
\* (each pass of its loop touches out_it[d] only)
predictDistSingle(o, ids, outv) ==
    [d \in 1..Len(outv) |->
        IF d > Len(ids) THEN outv[d]
        ELSE distNormalise(combineLeaves(o, distReset(outv[d]),
                              [t \in 1..o.n_trees |-> findLeafSingle(o, ids[d], t - 1)], 0))]

\* The binary functions the callers of the *Base forms pass: "assign" is the
\* output_assignment_functor of probabilityGroupwise and probabilitySingle,
\* "add" accumulates into the output.
binary_function(bf, old, score) == IF bf = "assign" THEN score ELSE old + score

\* simple_pdf_functor
pdf_functor(o, treenum, n, label) == distPdf(LeafDist(o, treenum, n), label)

\* result += pdf_functor(leaf, label, id) for t = 0 .. n_trees-1
RECURSIVE sumPdf(_, _, _, _)
sumPdf(o, leafOf, label, t) ==
    IF t >= o.n_trees THEN 0
    ELSE pdf_functor(o, t, leafOf[t + 1], label) + sumPdf(o, leafOf, label, t + 1)

\* randomForestBase::probabilityGroupwiseBase: the output container after
\* the call
probabilityOfLeaves(o, ids, labels, outv, single_label, bf, leaves) ==
    [d \in 1..Len(outv) |->
        IF d > Len(ids) THEN outv[d]
        ELSE binary_function(bf, outv[d],
                 sumPdf(o, [t \in 1..o.n_trees |-> leaves[t][d]],
                        IF single_label THEN labels[1] ELSE labels[d], 0)
                 \div o.n_trees)]

probabilityGroupwiseBase(o, ids, labels, outv, single_label, bf) ==
    probabilityOfLeaves(o, ids, labels, outv, single_label, bf,
        [t \in 1..o.n_trees |-> findLeavesGroupwise(o, ids, t - 1)])

\* The body of the loop over d of probabilitySingleBase up to the
\* computation of result / n_trees, for the id and the label its iterators
\* point at.
singleResult(o, id, label) ==
    sumPdf(o, [t \in 1..o.n_trees |-> findLeafSingle(o, id, t - 1)], label, 0) \div o.n_trees

----------------------------------------------------------------------------
(* The program: two forest objects, two files, and the calls made on them.  *)

ObjIds == {1, 2}
FileNames == {"A", "B"}

\* The values a member that no constructor sets may hold.
Junk == {0, 1}

\* The seed std::random_device gives initialise().
Seeds == {1, 42}

\* Object 1 is made by the full constructor, for two classes.
FullObject(j, sd) == classifierFull(2, MaxTrees, MaxLevels, j = 1, sd)

\* Object 2 is made by the default constructor.
DefaultObject(j, sd) == initialise(rawObject(j, j, j = 1), sd)

NoCall ==
    [op |-> "none", o |-> 0, f |-> "", trees_used |-> -1, max_depth_used |-> -1,
     ret |-> "none", pre |-> <<>>, tin |-> <<>>, ids |-> <<>>, outpre |-> <<>>]

\* What is remembered of an object's past (ghost): the arguments and trees
\* of its completed training, whether its last load failed, how many loads
\* it has had and the arguments and result of the last one.
NoLog == [tin |-> <<>>, trees |-> <<>>, load_failed |-> FALSE, loads |-> 0, load |-> <<>>]

\* The process is alive (it did not die in a call).
Alive == last.ret # "crash"

\* No parallel section is running.
Idle == pc = <<>>

\* The strings the caller passes to setFeatureDefinitionString.
HeaderStr == <<Word("Feature"), Word("kinds")>>
FeatStr == <<Word("haar"), Num(PrintInt(3))>>

\* The names the caller passes to setClassNames.
ClassNames == << <<Word("cat")>>, <<Word("dog")>> >>

\* The arguments of a call of train().
TrainInput(pattern, bagging, prop, split) ==
    [num_ids |-> NumSamples, labels |-> LabelsOf(pattern, NumSamples), pseed |-> 0,
     num_param_combos_to_test |-> 2, bagging |-> bagging, bag_proportion |-> prop,
     train_split_nodes |-> split, min_training_data |-> 1]

\* Training without bagging: no random draw is made.
PlainTrainInputs ==
    {TrainInput(pattern, FALSE, FloatOne \div 2, split) :
        pattern \in LabelPatterns, split \in BOOLEAN}

SetFeatureDefinitionString(o) ==
    /\ Alive /\ Idle
    /\ obj[o].feature_string # FeatStr
    /\ obj' = [obj EXCEPT ![o] = setFeatureDefinitionString(@, HeaderStr, FeatStr)]
    /\ last' = [NoCall EXCEPT !.op = "setFeatureDefinitionString", !.o = o, !.pre = obj[o]]
    /\ UNCHANGED <<files, calls, tlog, pc, loc, shared, access, out>>

SetClassNames(o) ==
    /\ Alive /\ Idle
    /\ obj[o].class_names # ClassNames
    /\ obj' = [obj EXCEPT ![o] = setClassNames(@, ClassNames)]
    /\ last' = [NoCall EXCEPT !.op = "setClassNames", !.o = o, !.pre = obj[o]]
    /\ UNCHANGED <<files, calls, tlog, pc, loc, shared, access, out>>

\* The state after train() returned r.
Trained(o, tin, r) ==
    /\ obj' = [obj EXCEPT ![o] = r.o]
    /\ tlog' = IF r.done
               THEN [tlog EXCEPT ![o].tin = tin, ![o].trees = r.log,
                                 ![o].load_failed = FALSE]
               ELSE tlog
    /\ last' = [NoCall EXCEPT !.op = "train", !.o = o, !.pre = obj[o], !.tin = tin,
                              !.ret = IF r.done THEN "done" ELSE "rejected"]

\* train() run by one thread.
Train(o, tin) ==
    /\ Alive /\ Idle
    /\ calls < MaxCalls
    /\ tlog[o].trees = <<>>
    /\ Trained(o, tin, train(obj[o], tin))
    /\ calls' = calls + 1
    /\ UNCHANGED <<files, pc, loc, shared, access, out>>

\* The state after writeToFile left the file w.
Written(o, f, w) ==
    /\ files' = [files EXCEPT ![f] = w]
    /\ last' = [NoCall EXCEPT !.op = "writeToFile", !.o = o, !.f = f, !.pre = obj[o],
                              !.ret = IF w.crashed THEN "crash" ELSE "true"]

WriteToFile(o, f, ub) ==
    /\ Alive /\ Idle
    /\ calls < MaxCalls
    /\ isValid(obj[o])
    /\ ~files[f].exists
    /\ Written(o, f, writeToFile(obj[o], ub))
    /\ calls' = calls + 1
    /\ UNCHANGED <<obj, tlog, pc, loc, shared, access, out>>

\* The state after readFromFile returned r.
Loaded(o, f, trees_used, max_depth_used, r) ==
    /\ obj' = [obj EXCEPT ![o] = r.o]
    /\ tlog' = [tlog EXCEPT ![o].load_failed = IF files[f].exists THEN ~r.ret ELSE @,
                            ![o].loads = @ + 1,
                            ![o].load = [f |-> f, trees_used |-> trees_used,
                                         max_depth_used |-> max_depth_used, ret |-> r.ret]]
    /\ last' = [NoCall EXCEPT !.op = "readFromFile", !.o = o, !.f = f, !.pre = obj[o],
                              !.trees_used = trees_used, !.max_depth_used = max_depth_used,
                              !.ret = IF r.ret THEN "true" ELSE "false"]

ReadFromFile(o, f, trees_used, max_depth_used) ==
    /\ Alive /\ Idle
    /\ calls < MaxCalls
    /\ Loaded(o, f, trees_used, max_depth_used,
              readFromFile(obj[o], files[f], trees_used, max_depth_used))
    /\ calls' = calls + 1
    /\ UNCHANGED <<files, pc, loc, shared, access, out>>

\* The (trees_used, max_depth_used) pairs the callers pass.
ReadArgs ==
    {<<-1, -1>>, <<0, -1>>, <<1, -1>>, <<MaxTrees, -1>>, <<MaxTrees + 1, -1>>,
     <<-1, 0>>, <<-1, 1>>, <<-1, MaxLevels - 1>>, <<-1, MaxLevels>>, <<-1, MaxLevels + 1>>,
     <<1, 1>>, <<1, 0>>}

----------------------------------------------------------------------------
(* Writing and reading models: object 1 is trained and written to file A,   *)
(* object 2 reads file A and is written to file B.                          *)

InitIO ==
    /\ \E j1 \in Junk, j2 \in Junk :
          obj = [o \in ObjIds |-> IF o = 1 THEN FullObject(j1, 1) ELSE DefaultObject(j2, 1)]
    /\ files = [f \in FileNames |-> NoFile]
    /\ last = NoCall
    /\ calls = 0
    /\ tlog = [o \in ObjIds |-> NoLog]
    /\ pc = <<>> /\ loc = <<>> /\ shared = <<>> /\ access = {} /\ out = <<>>

NextIO ==
    \/ SetFeatureDefinitionString(1)
    \/ SetClassNames(1)
    \/ \E tin \in PlainTrainInputs : Train(1, tin)
    \/ \E ub \in UBOutcomes : WriteToFile(1, "A", ub)
    \/ \E a \in ReadArgs : ReadFromFile(2, "A", a[1], a[2])
    \/ \E ub \in UBOutcomes : WriteToFile(2, "B", ub)

SpecIO == InitIO /\ [][NextIO]_vars

----------------------------------------------------------------------------
(* What a model file holds, read off its lines.                             *)

\* The lines after the eight lines of the header.
TreeSection(lines) == SubSeq(lines, 9, Len(lines))

\* The number of blank lines among the first i lines.
BlankCount(lines, i) == Cardinality({j \in 1..i : lines[j] = <<>>})

\* The positions of the node lines of the t-th tree block (t from 1).
BlockLines(lines, t) ==
    {i \in 1..Len(lines) : lines[i] # <<>> /\ BlankCount(lines, i) = t - 1}

\* The position that ends the first k tree blocks (their blank lines included).
BlocksEnd(lines, k) ==
    {i \in 1..Len(lines) : lines[i] = <<>> /\ BlankCount(lines, i) = k}

\* The first k tree blocks.
FirstBlocks(lines, k) ==
    IF BlocksEnd(lines, k) = {} THEN <<>>
    ELSE SubSeq(lines, 1, CHOOSE i \in BlocksEnd(lines, k) : TRUE)

\* The integer a file holds at a token.
FileInt(tok) == tok.n \div FloatOne

\* The tree count, level count and split flag of a file's dimensions line.
FileTrees(file) == FileInt(file.lines[5][1])
FileLevels(file) == FileInt(file.lines[5][2])
FileSplitDists(file) == FileInt(file.lines[5][3]) = 1

ParentOf(n) == (n - 1) \div 2

\* Node n has an ancestor that is a leaf: it has no line in a file.
RECURSIVE IsOrphan(_, _)
IsOrphan(nodes, n) ==
    n > 0 /\ (nodes[ParentOf(n) + 1].is_leaf \/ IsOrphan(nodes, ParentOf(n)))

\* The line, within its tree block, of node n of a written tree.
LineIndex(nodes, n) == Cardinality({m \in 0..n : ~IsOrphan(nodes, m)})

\* The line a file holds for node n of tree t (t from 1) of the forest src
\* it was written from.
StoredLineAt(lines, t, k) ==
    lines[CHOOSE i \in BlockLines(lines, t) :
              Cardinality({j \in BlockLines(lines, t) : j <= i}) = k]

StoredLine(file, src, t, n) ==
    StoredLineAt(TreeSection(file.lines), t, LineIndex(src.forest[t].nodes, n))

\* The distribution at the end of a node's line.
DistOfLine(line, nc) == [c \in 1..nc |-> line[Len(line) - nc + c].n]

\* A loaded node holds what its line stores.
AsStored(nd, line, nc) ==
    IF line[1].n = PrintBool(TRUE)
    THEN nd.is_leaf /\ Len(nd.post) = 1 /\ nd.post[1].prob = DistOfLine(line, nc)
    ELSE /\ ~nd.is_leaf
         /\ \A p \in 1..TNumParams : nd.params[p] = FileInt(line[1 + p])
         /\ nd.thresh = line[2 + TNumParams].n

\* A loaded node is a leaf that holds the distribution of its line.
LeafOfLine(nd, line, nc) ==
    nd.is_leaf /\ Len(nd.post) = 1 /\ nd.post[1].prob = DistOfLine(line, nc)

\* Object 2 was loaded once, from file A, with these arguments, and the
\* load succeeded.
LoadedOnce(trees_used, max_depth_used) ==
    /\ tlog[2].loads = 1
    /\ tlog[2].load = [f |-> "A", trees_used |-> trees_used,
                       max_depth_used |-> max_depth_used, ret |-> TRUE]

----------------------------------------------------------------------------
(* Claims about writing and reading models.                                 *)

\* C1: a forest written to file A, read from A with the default arguments
\* into a freshly constructed forest, and written from there to file B,
\* gives a file B identical to A token for token, the feature header line
\* included, whether or not class names were set.
C1_RoundTripIdentical ==
    (files["A"].exists /\ files["B"].exists /\ LoadedOnce(-1, -1))
        => (~files["B"].crashed /\ files["B"].lines = files["A"].lines)

\* C3: a load with trees_used = t' (1 <= t' <= the file's tree count, no
\* depth truncation) leaves n_trees = t', and writing the loaded forest
\* gives a tree section equal to the first t' tree blocks of the file; with
\* trees_used <= 0 every tree of the file is loaded.
C3_TreeTruncation ==
    \A tu \in -1..MaxTrees :
        (files["A"].exists /\ files["B"].exists /\ LoadedOnce(tu, -1))
            => /\ obj[2].n_trees = (IF tu <= 0 THEN FileTrees(files["A"]) ELSE tu)
               /\ ~files["B"].crashed
               /\ TreeSection(files["B"].lines)
                      = FirstBlocks(TreeSection(files["A"].lines),
                                    IF tu <= 0 THEN FileTrees(files["A"]) ELSE tu)

\* The class count and the class names on the header data line of a file.
FileClasses(file) == FileInt(file.lines[7][1])
FileNameCount(file) == Len(file.lines[7]) - 1

\* The names a load of the file must leave: the stored ones, then "Class i".
NamesOfFile(file) ==
    [i \in 1..FileClasses(file) |->
        IF i <= FileNameCount(file) THEN <<file.lines[7][i + 1]>>
        ELSE <<Word("Class"), Num(PrintInt(i - 1))>>]

\* C14: after a successful readFromFile of a file that gives K classes and
\* m <= K class names, getClassNames returns exactly K names, the i-th
\* stored name for i < m and "Class i" for i >= m (so names set with
\* setClassNames before writeToFile come back on reading), and
\* getNumberClasses returns K.
C14_ClassNamesRead ==
    (/\ last.op = "readFromFile" /\ last.ret = "true"
     /\ FileNameCount(files[last.f]) <= FileClasses(files[last.f]))
        => /\ getNumberClasses(obj[last.o]) = FileClasses(files[last.f])
           /\ getClassNames(obj[last.o]) = NamesOfFile(files[last.f])

----------------------------------------------------------------------------
(* Loading with truncation: object 1 is trained and written to file A, and  *)
(* object 2 reads A with a tree count and a depth.                          *)

InitDepth == InitIO

NextDepth ==
    \/ \E tin \in PlainTrainInputs : Train(1, tin)
    \/ \E ub \in UBOutcomes : WriteToFile(1, "A", ub)
    \/ \E a \in ReadArgs : ReadFromFile(2, "A", a[1], a[2])

SpecDepth == InitDepth /\ [][NextDepth]_vars

\* The tree and the level count a depth-truncated load must leave.
TruncatedNode(nd, line, nc, n, d) ==
    IF n <= Pow2(d) - 2 THEN AsStored(nd, line, nc) ELSE LeafOfLine(nd, line, nc)

TruncatedTree(o, file, t, d) ==
    /\ Len(o.forest[t].nodes) = Pow2(d + 1) - 1
    /\ \A n \in 0..(Pow2(d + 1) - 2) :
          ~IsOrphan(file.src[1].forest[t].nodes, n)
              => TruncatedNode(o.forest[t].nodes[n + 1],
                               StoredLine(file, file.src[1], t, n),
                               o.n_classes, n, d)

TruncatedForest(o, file, trees_used, d) ==
    /\ o.n_levels = d
    /\ o.n_nodes = Pow2(d + 1) - 1
    /\ o.n_trees = (IF trees_used <= 0 THEN FileTrees(file) ELSE trees_used)
    /\ \A t \in 1..o.n_trees : TruncatedTree(o, file, t, d)

\* C4: a successful load with max_depth_used = d (0 <= d <= the file's level
\* count) from a file that stores split distributions leaves n_levels = d
\* and trees of 2^(d+1) - 1 nodes; nodes of index <= 2^d - 2 are loaded as
\* stored; nodes of index in (2^d - 2, 2^(d+1) - 2] that are not orphans are
\* leaves carrying the distribution of their line, whether the file stored
\* them as leaf or split; the deeper lines are consumed, so that every later
\* tree is read from its own first node line.
C4_DepthTruncation ==
    (last.op = "readFromFile" /\ last.ret = "true" /\ last.max_depth_used >= 0)
        => TruncatedForest(obj[last.o], files[last.f], last.trees_used,
                           last.max_depth_used)

\* A load truncated to depth 1 turned a stored split node (node 2 of the
\* first tree) into a leaf, and read a second tree after it.
C4_Witness ==
    /\ last.op = "readFromFile" /\ last.ret = "true"
    /\ last.max_depth_used = 1 /\ last.trees_used <= 0
    /\ FileSplitDists(files[last.f])
    /\ ~files[last.f].src[1].forest[1].nodes[3].is_leaf
    /\ obj[last.o].forest[1].nodes[3].is_leaf
    /\ obj[last.o].n_trees = MaxTrees

----------------------------------------------------------------------------
(* Loading files that are malformed or that the arguments do not fit:       *)
(* object 1 is trained and written to file A, a token of A may be damaged,  *)
(* and either object reads A.                                               *)

\* The tokens of a model file that may be damaged: the level count of the
\* dimensions line, the class count of the header data, and the leaf flag
\* of the first node line.
CorruptKinds == {"dims", "header", "node"}

CorruptLine(kind) == IF kind = "dims" THEN 5 ELSE IF kind = "header" THEN 7 ELSE 9

CorruptToken(kind) == IF kind = "dims" THEN 2 ELSE 1

\* No token of the file is damaged.
Intact(lines) ==
    /\ Len(lines) >= 9
    /\ \A kind \in CorruptKinds : IsNum(lines[CorruptLine(kind)][CorruptToken(kind)])

\* A token of file f is replaced by a word.
Corrupt(f, kind) ==
    /\ Alive /\ Idle
    /\ files[f].exists
    /\ Intact(files[f].lines)
    /\ files' = [files EXCEPT ![f].lines[CorruptLine(kind)][CorruptToken(kind)] = Word("x")]
    /\ UNCHANGED <<obj, last, calls, tlog, pc, loc, shared, access, out>>

\* The (trees_used, max_depth_used) pairs of SpecLoad.
LoadArgs ==
    {<<-1, -1>>, <<MaxTrees + 1, -1>>, <<1, MaxLevels + 1>>, <<1, 1>>, <<-1, 0>>}

InitLoad == InitIO

NextLoad ==
    \/ SetFeatureDefinitionString(1)
    \/ \E tin \in PlainTrainInputs : Train(1, tin)
    \/ \E ub \in UBOutcomes : WriteToFile(1, "A", ub)
    \/ \E kind \in CorruptKinds : Corrupt("A", kind)
    \/ \E o \in ObjIds, a \in LoadArgs : ReadFromFile(o, "A", a[1], a[2])

SpecLoad == InitLoad /\ [][NextLoad]_vars

\* The arguments of a load do not fit the file: more trees are asked for
\* than it has, more levels than it has, or a depth truncation of a file
\* without split distributions; taken in the order readFromFile reads the
\* dimensions line.
ConfigError(file, trees_used, max_depth_used) ==
    /\ file.exists
    /\ Len(file.lines) >= 5 /\ Len(file.lines[5]) = 3
    /\ IsNum(file.lines[5][1])
    /\ \/ trees_used > FileTrees(file)
       \/ /\ IsNum(file.lines[5][2])
          /\ \/ max_depth_used > FileLevels(file)
             \/ /\ IsNum(file.lines[5][3])
                /\ max_depth_used >= 0
                /\ ~FileSplitDists(file)

\* C5: whenever readFromFile fails on a token of an opened file (dimensions
\* line, header data or a node token) it returns false and the forest is
\* not valid afterwards, also when it was valid before the call.
C5_FailedLoadInvalid ==
    (/\ last.op = "readFromFile" /\ files[last.f].exists /\ last.ret = "false"
     /\ ~ConfigError(files[last.f], last.trees_used, last.max_depth_used))
        => ~isValid(obj[last.o])

\* C6: when trees_used exceeds the file's tree count, max_depth_used exceeds
\* its level count, or max_depth_used >= 0 and the file stores no split
\* distributions, readFromFile returns false and changes nothing of the
\* forest (n_trees, n_levels, fit_split_nodes, feature string, class names,
\* nodes, valid).
C6_ConfigErrorNoMutation ==
    (/\ last.op = "readFromFile"
     /\ ConfigError(files[last.f], last.trees_used, last.max_depth_used))
        => (last.ret = "false" /\ obj[last.o] = last.pre)

----------------------------------------------------------------------------
(* Predicting with trained and with loaded forests: object 1 is trained and *)
(* written to file A, object 2 reads A, and either predicts distributions   *)
(* for a sequence of ids with the groupwise or with the single method.      *)

\* The id sequences the callers predict for. Odd ids lie on the thresholds
\* that training on the (even) training ids finds.
IdSeqs == {<<3>>, <<1, 3, 6>>, <<7, 0>>, <<2, 5>>}

\* The output container the caller passes: one distribution per id,
\* initialised for the forest's number of classes.
OutDists(o, num) == [d \in 1..num |-> distInitialise(defaultDist, getNumberClasses(o))]

\* The loads of SpecPredict.
PredictLoadArgs == {<<-1, -1>>, <<1, -1>>, <<-1, 1>>, <<-1, 0>>}

\* A forest that prediction may be called on: it is valid, and was not left
\* so by a load that failed (which may leave n_trees above the number of
\* trees held).
Usable(o) == isValid(obj[o]) /\ ~tlog[o].load_failed

Predicted(o, op, ids, outv) ==
    /\ last' = [NoCall EXCEPT !.op = op, !.o = o, !.pre = obj[o], !.ids = ids,
                              !.outpre = outv]
    /\ calls' = calls + 1
    /\ UNCHANGED <<obj, files, tlog, pc, loc, shared, access>>

PredictDistGroupwise(o, ids) ==
    /\ Alive /\ Idle
    /\ calls < MaxCalls
    /\ Usable(o)
    /\ out' = predictDistGroupwise(obj[o], ids, OutDists(obj[o], Len(ids)))
    /\ Predicted(o, "predictDistGroupwise", ids, OutDists(obj[o], Len(ids)))

PredictDistSingle(o, ids) ==
    /\ Alive /\ Idle
    /\ calls < MaxCalls
    /\ Usable(o)
    /\ out' = predictDistSingle(obj[o], ids, OutDists(obj[o], Len(ids)))
    /\ Predicted(o, "predictDistSingle", ids, OutDists(obj[o], Len(ids)))

InitPredict == InitIO

NextPredict ==
    \/ \E tin \in PlainTrainInputs : Train(1, tin)
    \/ \E ub \in UBOutcomes : WriteToFile(1, "A", ub)
    \/ \E a \in PredictLoadArgs : ReadFromFile(2, "A", a[1], a[2])
    \/ \E o \in ObjIds, ids \in IdSeqs : PredictDistGroupwise(o, ids)
    \/ \E o \in ObjIds, ids \in IdSeqs : PredictDistSingle(o, ids)

SpecPredict == InitPredict /\ [][NextPredict]_vars

\* The leaves the single method reaches for each position of ids in a tree.
SingleLeaves(o, ids, treenum) == [d \in 1..Len(ids) |-> findLeafSingle(o, ids[d], treenum)]

\* Node n of tree treenum is a leaf.
IsLeafAt(o, treenum, n) ==
    n >= 0 /\ n < Len(o.forest[treenum + 1].nodes) /\ o.forest[treenum + 1].nodes[n + 1].is_leaf

\* C2: for a valid forest (trained or loaded), every tree and every id of a
\* call, findLeavesGroupwise and findLeafSingle reach the same leaf node,
\* and predictDistGroupwise and predictDistSingle give the same output
\* distributions.
C2_GroupwiseSingleParity ==
    (last.op \in {"predictDistGroupwise", "predictDistSingle"})
        => /\ \A t \in 0..(obj[last.o].n_trees - 1) :
                 /\ findLeavesGroupwise(obj[last.o], last.ids, t)
                        = SingleLeaves(obj[last.o], last.ids, t)
                 /\ \A d \in 1..Len(last.ids) :
                        IsLeafAt(obj[last.o], t, SingleLeaves(obj[last.o], last.ids, t)[d])
           /\ out = predictDistGroupwise(obj[last.o], last.ids, last.outpre)
           /\ out = predictDistSingle(obj[last.o], last.ids, last.outpre)

\* A groupwise prediction was made with a forest whose first tree splits at
\* its root, for ids that reach different leaves of that tree, one of them
\* with a score equal to the root's threshold.
C2_Witness ==
    /\ last.op = "predictDistGroupwise"
    /\ ~obj[last.o].forest[1].nodes[1].is_leaf
    /\ \E d \in 1..Len(last.ids) :
          FeatureScore(last.ids[d], obj[last.o].forest[1].nodes[1].params)
              = obj[last.o].forest[1].nodes[1].thresh
    /\ \E d, e \in 1..Len(last.ids) :
          findLeafSingle(obj[last.o], last.ids[d], 0) # findLeafSingle(obj[last.o], last.ids[e], 0)
    /\ out # last.outpre

----------------------------------------------------------------------------
(* Scalar probabilities: object 1 is trained, then probabilityGroupwiseBase *)
(* and probabilitySingleBase are called on it. The passes of the loop of    *)
(* probabilitySingleBase run as parallel workers (#pragma omp parallel for) *)
(* on the iterators first_id, label_it and out_it, which are declared       *)
(* outside the loop and so are shared by the workers.                       *)

\* The arguments of the calls: ids, labels, single_label, binary function.
ProbArgs ==
    {[ids |-> <<0, 6>>, labels |-> <<0, 1>>, single_label |-> FALSE, bf |-> "assign"],
     [ids |-> <<6, 1>>, labels |-> <<1>>, single_label |-> TRUE, bf |-> "add"],
     [ids |-> <<5, 2>>, labels |-> <<1, 0>>, single_label |-> FALSE, bf |-> "add"]}

\* The output container the caller passes: one number per id.
OutCells(num) == [d \in 1..num |-> d]

ProbCalled(o, op, a, ret) ==
    last' = [NoCall EXCEPT !.op = op, !.o = o, !.pre = obj[o], !.ids = a.ids, !.tin = a,
                           !.outpre = OutCells(Len(a.ids)), !.ret = ret]

\* probabilityGroupwiseBase (its parallel loop writes leaves[t] for its own
\* t only)
ProbabilityGroupwise(o, a) ==
    /\ Alive /\ Idle
    /\ calls < MaxCalls
    /\ Usable(o)
    /\ out' = probabilityGroupwiseBase(obj[o], a.ids, a.labels, OutCells(Len(a.ids)),
                                       a.single_label, a.bf)
    /\ ProbCalled(o, "probabilityGroupwise", a, "done")
    /\ calls' = calls + 1
    /\ UNCHANGED <<obj, files, tlog, pc, loc, shared, access>>

\* probabilitySingleBase up to the start of its parallel loop: one worker
\* per pass d.
ProbabilitySingleBegin(o, a) ==
    /\ Alive /\ Idle
    /\ calls < MaxCalls
    /\ Usable(o)
    /\ out' = OutCells(Len(a.ids))
    /\ pc' = [d \in 1..Len(a.ids) |-> "compute"]
    /\ loc' = [d \in 1..Len(a.ids) |-> [result |-> 0, first_id |-> 0, label_it |-> 0,
                                        out_it |-> 0]]
    /\ shared' = [first_id |-> 0, label_it |-> 0, out_it |-> 0]
    /\ ProbCalled(o, "probabilitySingle", a, "running")
    /\ calls' = calls + 1
    /\ UNCHANGED <<obj, files, tlog, access>>

\* A worker is at the given place of its pass.
ProbAt(d, place) ==
    /\ last.op = "probabilitySingle" /\ last.ret = "running"
    /\ d \in DOMAIN pc /\ pc[d] = place

\* The loop over the trees: result / n_trees for *first_id and *label_it
ProbCompute(d) ==
    /\ ProbAt(d, "compute")
    /\ loc' = [loc EXCEPT ![d].result =
                  singleResult(obj[last.o], last.ids[shared.first_id + 1],
                               last.tin.labels[shared.label_it + 1])]
    /\ pc' = [pc EXCEPT ![d] = "assign"]
    /\ UNCHANGED <<obj, files, last, calls, tlog, shared, access, out>>

\* *out_it = binary_function(*out_it, result / n_trees)
ProbAssign(d) ==
    /\ ProbAt(d, "assign")
    /\ out' = [out EXCEPT ![shared.out_it + 1] =
                  binary_function(last.tin.bf, @, loc[d].result)]
    /\ pc' = [pc EXCEPT ![d] = "load"]
    /\ UNCHANGED <<obj, files, last, calls, tlog, loc, shared, access>>

\* ++first_id; ++out_it; ++label_it: the iterators are read ...
ProbLoad(d) ==
    /\ ProbAt(d, "load")
    /\ loc' = [loc EXCEPT ![d].first_id = shared.first_id, ![d].out_it = shared.out_it,
                          ![d].label_it = shared.label_it]
    /\ pc' = [pc EXCEPT ![d] = "store"]
    /\ UNCHANGED <<obj, files, last, calls, tlog, shared, access, out>>

\* ... and written back advanced by one (label_it unless single_label).
ProbStore(d) ==
    /\ ProbAt(d, "store")
    /\ shared' = [first_id |-> loc[d].first_id + 1, out_it |-> loc[d].out_it + 1,
                  label_it |-> IF last.tin.single_label THEN shared.label_it
                               ELSE loc[d].label_it + 1]
    /\ pc' = [pc EXCEPT ![d] = "done"]
    /\ UNCHANGED <<obj, files, last, calls, tlog, loc, access, out>>

\* The end of the parallel loop, and the return of probabilitySingleBase.
ProbabilitySingleEnd ==
    /\ last.op = "probabilitySingle" /\ last.ret = "running"
    /\ \A d \in DOMAIN pc : pc[d] = "done"
    /\ last' = [last EXCEPT !.ret = "done"]
    /\ pc' = <<>> /\ loc' = <<>> /\ shared' = <<>>
    /\ UNCHANGED <<obj, files, calls, tlog, access, out>>

\* The greatest number of ids of a call.
MaxIds == 2

InitProb == InitIO

NextProb ==
    \/ \E tin \in PlainTrainInputs : Train(1, tin)
    \/ \E a \in ProbArgs : ProbabilityGroupwise(1, a)
    \/ \E a \in ProbArgs : ProbabilitySingleBegin(1, a)
    \/ \E d \in 1..MaxIds : ProbCompute(d)
    \/ \E d \in 1..MaxIds : ProbAssign(d)
    \/ \E d \in 1..MaxIds : ProbLoad(d)
    \/ \E d \in 1..MaxIds : ProbStore(d)
    \/ ProbabilitySingleEnd

SpecProb == InitProb /\ [][NextProb]_vars

\* The label of position d of a call.
LabelAt(a, d) == IF a.single_label THEN a.labels[1] ELSE a.labels[d]

\* The mean over the trees of the pdf, at the leaf an id reaches, of a label.
MeanPdf(o, id, label) ==
    SumSeq([t \in 1..o.n_trees |->
               distPdf(o.forest[t].nodes[findLeafSingle(o, id, t - 1) + 1].post[1], label)])
        \div o.n_trees

\* C8: a call of probabilitySingle(Base) or probabilityGroupwise(Base) that
\* has returned has assigned to every output cell d the value
\* binary_function(old out[d], mean over the trees of the pdf of label_d at
\* the leaf id_d reaches), label_d being the one label when single_label is
\* set; for probabilitySingle under every interleaving of its workers.
C8_ScalarProbability ==
    (last.op \in {"probabilitySingle", "probabilityGroupwise"} /\ last.ret = "done")
        => out = [d \in 1..Len(last.ids) |->
                     binary_function(last.tin.bf, last.outpre[d],
                         MeanPdf(obj[last.o], last.ids[d], LabelAt(last.tin, d)))]

----------------------------------------------------------------------------
(* Training with bagging: both objects are made by the full constructor     *)
(* with the same seed. train() is called on object 1 with the passes of its *)
(* tree loop run as parallel workers (#pragma omp parallel for), every      *)
(* worker shuffling its root bag with the member rand_engine; train() is    *)
(* called on object 2 with the same arguments and run by one thread.        *)

\* The calls with bagging that train() accepts ...
BaggedTrainInputs ==
    {TrainInput(pattern, TRUE, FloatOne \div 2, split) :
        pattern \in {"alt", "half"}, split \in BOOLEAN}

\* ... and the ones it rejects: bag_proportion is 0 or 1.5.
RejectedTrainInputs ==
    {TrainInput("alt", TRUE, prop, split) :
        prop \in {0, FloatOne + FloatOne \div 2}, split \in BOOLEAN}

\* An access of a worker to an object (ghost).
Access(t, object, index, kind) == [t |-> t, object |-> object, index |-> index, kind |-> kind]

\* The first statement of train(), and its return when it rejects
\* bag_proportion.
TrainRejected(o, tin) ==
    /\ Alive /\ Idle
    /\ calls < MaxCalls
    /\ BagProportionRejected(tin)
    /\ Trained(o, tin, train(obj[o], tin))
    /\ calls' = calls + 1
    /\ UNCHANGED <<files, pc, loc, shared, access, out>>

\* train() run by one thread on object o, with the arguments the other
\* object was trained with.
TrainAlike(o, other, tin) ==
    /\ tlog[other].trees # <<>>
    /\ tlog[other].tin = tin
    /\ Train(o, tin)

\* train() up to the start of its parallel loop: one worker per tree.
TrainBegin(o, tin) ==
    /\ Alive /\ Idle
    /\ calls < MaxCalls
    /\ tlog[o].trees = <<>>
    /\ ~BagProportionRejected(tin)
    /\ obj' = [obj EXCEPT ![o] = trainingPrecalculations(
                                     [@ EXCEPT !.fit_split_nodes = tin.train_split_nodes],
                                     tin.num_ids)]
    /\ pc' = [t \in 1..obj[o].n_trees |-> IF tin.bagging THEN "read" ELSE "grow"]
    /\ loc' = [t \in 1..obj[o].n_trees |->
                  [v |-> Iota(tin.num_ids), i |-> 1, x |-> 0, log |-> <<>>]]
    /\ last' = [NoCall EXCEPT !.op = "train", !.o = o, !.pre = obj[o], !.tin = tin,
                              !.ret = "running"]
    /\ access' = {}
    /\ calls' = calls + 1
    /\ UNCHANGED <<files, tlog, shared, out>>

\* Worker t is at the given place of its pass.
TrainAt(t, place) ==
    /\ last.op = "train" /\ last.ret = "running"
    /\ t \in DOMAIN pc /\ pc[t] = place

\* A draw of std::shuffle from rand_engine: the state of the engine is read ...
ShuffleRead(t) ==
    /\ TrainAt(t, "read")
    /\ loc' = [loc EXCEPT ![t].x = obj[last.o].rand_engine]
    /\ pc' = [pc EXCEPT ![t] = "write"]
    /\ access' = access \cup {Access(t, "rand_engine", 0, "read")}
    /\ UNCHANGED <<obj, files, last, calls, tlog, shared, out>>

\* ... and the next state is written back; its value picks the swap.
ShuffleWrite(t) ==
    /\ TrainAt(t, "write")
    /\ obj' = [obj EXCEPT ![last.o].rand_engine = EngineNext(loc[t].x)]
    /\ loc' = [loc EXCEPT ![t].v = shuffleStep(@, loc[t].i, EngineNext(loc[t].x)),
                          ![t].i = @ + 1]
    /\ pc' = [pc EXCEPT ![t] = IF loc[t].i + 1 >= Len(loc[t].v) THEN "grow" ELSE "read"]
    /\ access' = access \cup {Access(t, "rand_engine", 0, "write")}
    /\ UNCHANGED <<files, last, calls, tlog, shared, out>>

\* The root bag of worker t: nodebag[0].resize(bagsize) after the shuffle.
WorkerBag(t) ==
    IF last.tin.bagging THEN Resize(loc[t].v, BagSize(last.tin), 0) ELSE loc[t].v

\* The state after worker t grew its tree into g.
Grown(t, bag, g) ==
    /\ obj' = [obj EXCEPT ![last.o].forest[t].nodes = g.nodes]
    /\ loc' = [loc EXCEPT ![t].log = TreeLog(bag, g)]

\* The node loop of tree t - 1: it reads the members train() does not
\* change during the loop and writes the nodes of its own tree.
GrowTree(t) ==
    /\ TrainAt(t, "grow")
    /\ Grown(t, WorkerBag(t), growTree(obj[last.o], last.tin, t - 1, WorkerBag(t)))
    /\ pc' = [pc EXCEPT ![t] = "done"]
    /\ access' = access \cup {Access(t, "xlogx_precalc", 0, "read"),
                              Access(t, "forest", t, "write")}
    /\ UNCHANGED <<files, last, calls, tlog, shared, out>>

\* The end of the parallel loop, and the end of train().
TrainEnd ==
    /\ last.op = "train" /\ last.ret = "running"
    /\ \A t \in DOMAIN pc : pc[t] = "done"
    /\ obj' = [obj EXCEPT ![last.o] = trainEnd(@)]
    /\ tlog' = [tlog EXCEPT ![last.o].tin = last.tin,
                            ![last.o].trees = [t \in DOMAIN loc |-> loc[t].log],
                            ![last.o].load_failed = FALSE]
    /\ last' = [last EXCEPT !.ret = "done"]
    /\ pc' = <<>> /\ loc' = <<>>
    /\ UNCHANGED <<files, calls, shared, access, out>>

InitTrain ==
    /\ \E j \in Junk, sd \in Seeds :
          obj = [o \in ObjIds |-> FullObject(j, sd)]
    /\ files = [f \in FileNames |-> NoFile]
    /\ last = NoCall
    /\ calls = 0
    /\ tlog = [o \in ObjIds |-> NoLog]
    /\ pc = <<>> /\ loc = <<>> /\ shared = <<>> /\ access = {} /\ out = <<>>

NextTrain ==
    \/ \E tin \in RejectedTrainInputs : TrainRejected(1, tin)
    \/ \E tin \in BaggedTrainInputs : TrainBegin(1, tin)
    \/ \E t \in 1..MaxTrees : ShuffleRead(t)
    \/ \E t \in 1..MaxTrees : ShuffleWrite(t)
    \/ \E t \in 1..MaxTrees : GrowTree(t)
    \/ TrainEnd
    \/ \E tin \in BaggedTrainInputs : TrainAlike(2, 1, tin)

SpecTrain == InitTrain /\ [][NextTrain]_vars

\* C7: train() called with bagging and a bag_proportion <= 0 or > 1 returns
\* with nothing of the forest changed: no node, not fit_split_nodes, no
\* precalculation, not valid.
C7_RejectedTrainNoMutation ==
    (last.op = "train" /\ last.ret = "rejected") => obj[last.o] = last.pre

\* C9: during train() no two tree workers access the same object unless
\* both only read it: bags, score buffers and the engine that shuffles the
\* root bag are private to a worker.
C9_TrainingIsolation ==
    \A a, b \in access :
        (a.t # b.t /\ a.object = b.object /\ a.index = b.index)
            => (a.kind = "read" /\ b.kind = "read")

\* C10: two forests of at least two trees, seeded alike and trained with the
\* same inputs and functors, hold the same trees (params, thresholds, leaf
\* flags, distributions) grown from the same root bags, however their tree
\* workers were scheduled.
C10_DeterministicTraining ==
    (/\ tlog[1].trees # <<>> /\ tlog[2].trees # <<>>
     /\ tlog[1].tin = tlog[2].tin)
        => /\ obj[1].forest = obj[2].forest
           /\ \A t \in 1..MaxTrees : tlog[1].trees[t].rootbag = tlog[2].trees[t].rootbag

----------------------------------------------------------------------------
(* Growing trees: object 1 is trained once, on one thread, with one of the  *)
(* calls below.                                                             *)

\* The numbers of parameter combinations the callers ask for.
ComboCounts == {0, 1, 3}

\* The parameter generators the callers pass.
ParamSeeds == {0, 2, 3}

\* The values of min_training_data the callers pass.
MinData == {1, 3}

\* The bagging arguments (bagging, bag_proportion) the callers pass.
BagArgs ==
    {<<FALSE, FloatOne \div 2>>, <<TRUE, FloatOne \div 5>>,
     <<TRUE, FloatOne \div 2>>, <<TRUE, FloatOne>>}

GrowInput(pattern, bag, split, combos, mindata, pseed) ==
    [TrainInput(pattern, bag[1], bag[2], split)
        EXCEPT !.num_param_combos_to_test = combos,
               !.min_training_data = mindata,
               !.pseed = pseed]

GrowInputs ==
    {GrowInput(pattern, bag, split, combos, mindata, pseed) :
        pattern \in LabelPatterns, bag \in BagArgs, split \in BOOLEAN,
        combos \in ComboCounts, mindata \in MinData, pseed \in ParamSeeds}

\* The information gain of the best cut of the samples but the first,
\* labelled 0,1,0,1,.., by a feature that gives every sample its own score.
ProbeObject == trainingPrecalculations(FullObject(0, 1), NumSamples)

ProbeBag == Tail(Iota(NumSamples))

ProbeGain ==
    bestSplit(ProbeObject,
              [d \in 1..Len(ProbeBag) |->
                  scoreInternalIndexStruct(FeatureScore(TrainId(ProbeBag[d]), <<0>>),
                                           ProbeBag[d])],
              LabelsOf("alt", NumSamples),
              singleNodeImpurity(ProbeObject, LabelsOf("alt", NumSamples), ProbeBag)).info_gain

\* The values of info_gain_tresh the callers construct object 1 with: the
\* default, and a gain that a split of the training data reaches exactly.
GainThresholds == {C_DEFAULT_MIN_INFO_GAIN, ProbeGain}

InitGrow ==
    /\ \E j1 \in Junk, g \in GainThresholds :
          obj = [o \in ObjIds |->
                    IF o = 1 THEN [FullObject(j1, 1) EXCEPT !.min_info_gain = g]
                    ELSE DefaultObject(j1, 1)]
    /\ files = [f \in FileNames |-> NoFile]
    /\ last = NoCall
    /\ calls = 0
    /\ tlog = [o \in ObjIds |-> NoLog]
    /\ pc = <<>> /\ loc = <<>> /\ shared = <<>> /\ access = {} /\ out = <<>>

NextGrow == \E tin \in GrowInputs : Train(1, tin)

SpecGrow == InitGrow /\ [][NextGrow]_vars

\* Object 1 has been trained: its training log holds one entry per tree.
Grew == last.op = "train" /\ last.ret = "done" /\ tlog[1].trees # <<>>

\* The trees of the training log of object 1, and their node numbers.
GrownTrees == 1..Len(tlog[1].trees)
GrownNodes == 0..(obj[1].n_nodes - 1)

\* What train() did at node n of tree t (t from 1).
DidAt(t, n) == tlog[1].trees[t].did[n + 1]

\* Node n of tree t of the trained forest.
NodeAt(t, n) == obj[1].forest[t].nodes[n + 1]

\* Node n was marked a leaf before the node loop came to it: the forest was
\* fresh, so its parent was fitted as a leaf.
PreMarked(t, n) == n > 0 /\ DidAt(t, ParentOf(n)).kind = "leaf"

----------------------------------------------------------------------------
(* Claims about the shape of trained trees.                                 *)

\* C11: in a forest of L levels train() makes a node a leaf on grounds of
\* depth only when n > 2^L - 2: every node n <= 2^L - 2 whose bag holds at
\* least min_training_data members and that was not marked a leaf before
\* goes through the split search.
C11_DepthLimit ==
    Grew =>
        \A t \in GrownTrees : \A n \in GrownNodes :
            (/\ n <= Pow2(obj[1].n_levels) - 2
             /\ Len(DidAt(t, n).bag) >= tlog[1].tin.min_training_data
             /\ ~PreMarked(t, n))
                => DidAt(t, n).searched

\* The labels of the call are all the label c.
SingleClass(tin, c) == \A i \in 1..Len(tin.labels) : tin.labels[i] = c

\* The distribution that gives class c the probability 1.
PointDist(K, c) == [k \in 1..K |-> IF k = c + 1 THEN FloatOne ELSE 0]

\* C13: after training on N >= 1 samples that all carry the label c, with
\* any bagging setting and any bag_proportion in (0,1], every leaf
\* distribution gives c the probability 1 and every other class 0 (no leaf
\* is fitted from an empty bag and left uniform).
C13_SingleClassLeaves ==
    (Grew /\ SingleClass(tlog[1].tin, 0))
        => \A t \in GrownTrees : \A n \in GrownNodes :
              (NodeAt(t, n).is_leaf /\ NodeAt(t, n).post # <<>>)
                  => NodeAt(t, n).post[1].prob = PointDist(obj[1].n_classes, 0)

\* The distribution fitted to the bag that train() held for node n.
FittedAt(t, n) ==
    distFit(initialiseNodeDist(obj[1], defaultDist),
            BagLabels(tlog[1].tin.labels, DidAt(t, n).bag))

\* C17: after train() a node holds a fitted distribution exactly when it is
\* a leaf that is the root or whose parent is a split node, or it is a
\* split node and fit_split_nodes is true; the children of a leaf above the
\* bottom layer are marked leaf and receive no distribution, and so on
\* downwards: every descendant of a leaf is an orphan.
C17_FittedNodes ==
    Grew =>
        \A t \in GrownTrees : \A n \in GrownNodes :
            /\ (NodeAt(t, n).post # <<>>)
                  <=> \/ /\ NodeAt(t, n).is_leaf
                         /\ (n = 0 \/ ~NodeAt(t, ParentOf(n)).is_leaf)
                      \/ /\ ~NodeAt(t, n).is_leaf
                         /\ obj[1].fit_split_nodes
            /\ (NodeAt(t, n).post # <<>>) => NodeAt(t, n).post = <<FittedAt(t, n)>>
            /\ (NodeAt(t, n).is_leaf /\ 2 * n + 2 < obj[1].n_nodes)
                  => \A c \in {2 * n + 1, 2 * n + 2} :
                        NodeAt(t, c).is_leaf /\ NodeAt(t, c).post = <<>>
            /\ IsOrphan(obj[1].forest[t].nodes, n)
                  => NodeAt(t, n).is_leaf /\ NodeAt(t, n).post = <<>>

\* A tree was grown with fit_split_nodes set whose root is a split node
\* with a distribution, whose node 1 is a leaf with a distribution, and
\* under it nodes 3 and 7 are orphans.
C17_Witness ==
    /\ Grew /\ obj[1].fit_split_nodes /\ obj[1].n_nodes > 7
    /\ \E t \in GrownTrees :
          /\ ~NodeAt(t, 0).is_leaf /\ Len(NodeAt(t, 0).post) = 1
          /\ NodeAt(t, 1).is_leaf /\ Len(NodeAt(t, 1).post) = 1
          /\ DidAt(t, 1).bag # <<>>
          /\ NodeAt(t, 3).is_leaf /\ NodeAt(t, 3).post = <<>>
          /\ NodeAt(t, 7).is_leaf /\ NodeAt(t, 7).post = <<>>

\* The trials at node n that were not skipped, and the greatest
\* information gain among them.
ValidTrials(t, n) == {i \in 1..Len(DidAt(t, n).tried) : DidAt(t, n).tried[i].varied}

GainAbove(t, n) ==
    \E i \in ValidTrials(t, n) : DidAt(t, n).tried[i].info_gain > minInfoGain(obj[1])

\* C18: train() makes a node a split node only if at least one of its M
\* trials had variation in the scores and the best information gain over
\* these trials is strictly greater than minInfoGain; a searched node all
\* of whose M trials were skipped (M = 0 included) or whose best gain is not
\* above the threshold is fitted as a leaf, and training goes on to the
\* end, every searched node having had exactly M trials.
C18_SplitAcceptance ==
    Grew =>
        \A t \in GrownTrees :
            /\ tlog[1].trees[t].asserted
            /\ \A n \in GrownNodes :
                  /\ DidAt(t, n).kind \in {"leaf", "split"}
                  /\ DidAt(t, n).kind = "split" => DidAt(t, n).searched
                  /\ DidAt(t, n).searched
                        => /\ Len(DidAt(t, n).tried) = tlog[1].tin.num_param_combos_to_test
                           /\ DidAt(t, n).kind = "split" <=> GainAbove(t, n)
                           /\ NodeAt(t, n).is_leaf <=> ~GainAbove(t, n)

\* Training ended with every kind of searched node in one tree or another:
\* a split node, a leaf all of whose trials were skipped, and a leaf whose
\* best gain over its valid trials equals the threshold.
C18_Witness ==
    /\ Grew /\ tlog[1].tin.num_param_combos_to_test > 1
    /\ \E t \in GrownTrees, n \in GrownNodes : DidAt(t, n).kind = "split"
    /\ \E t \in GrownTrees, n \in GrownNodes :
          /\ DidAt(t, n).searched /\ DidAt(t, n).kind = "leaf"
          /\ ValidTrials(t, n) = {}
    /\ \E t \in GrownTrees, n \in GrownNodes :
          /\ DidAt(t, n).searched /\ DidAt(t, n).kind = "leaf"
          /\ \E i \in ValidTrials(t, n) :
                DidAt(t, n).tried[i].info_gain = minInfoGain(obj[1])

\* The members of the bag of node n whose score under the parameters stored
\* at n is below the threshold stored at n (left), or is not.
SideOf(t, n, left) ==
    SelectSeq(DidAt(t, n).bag,
              LAMBDA i : (FeatureScore(TrainId(i), NodeAt(t, n).params) < NodeAt(t, n).thresh)
                             = left)

\* C19: at every split train() makes, the bags of the children 2n+1 and
\* 2n+2 partition the bag of n: a member goes to 2n+1 exactly when its
\* score under the stored parameters (those of the best trial) is below
\* the stored threshold, and to 2n+2 otherwise, also when later trials were
\* worse, equal or skipped.
C19_SplitPartition ==
    Grew =>
        \A t \in GrownTrees : \A n \in GrownNodes :
            DidAt(t, n).kind = "split"
                => /\ 2 * n + 2 < obj[1].n_nodes
                   /\ DidAt(t, 2 * n + 1).bag = SideOf(t, n, TRUE)
                   /\ DidAt(t, 2 * n + 2).bag = SideOf(t, n, FALSE)
                   /\ Len(DidAt(t, 2 * n + 1).bag) + Len(DidAt(t, 2 * n + 2).bag)
                         = Len(DidAt(t, n).bag)
                   /\ \E i \in ValidTrials(t, n) :
                         /\ NodeAt(t, n).params = DidAt(t, n).tried[i].params
                         /\ NodeAt(t, n).thresh = DidAt(t, n).tried[i].thresh
                         /\ \A j \in ValidTrials(t, n) :
                               /\ DidAt(t, n).tried[j].info_gain <= DidAt(t, n).tried[i].info_gain
                               /\ j < i => DidAt(t, n).tried[j].info_gain
                                               < DidAt(t, n).tried[i].info_gain

\* A tree was grown with a split node whose first trial was stored, the
\* second being worse and the third skipped, and with a split node whose
\* first trial was stored, the second having the same gain; both children
\* of both nodes got members.
C19_Witness ==
    /\ Grew
    /\ \E t \in GrownTrees : \E n, m \in GrownNodes :
          /\ DidAt(t, n).kind = "split" /\ Len(DidAt(t, n).tried) = 3
          /\ NodeAt(t, n).params = DidAt(t, n).tried[1].params
          /\ DidAt(t, n).tried[2].varied
          /\ DidAt(t, n).tried[2].info_gain < DidAt(t, n).tried[1].info_gain
          /\ DidAt(t, n).tried[2].params # DidAt(t, n).tried[1].params
          /\ ~DidAt(t, n).tried[3].varied
          /\ DidAt(t, 2 * n + 1).bag # <<>> /\ DidAt(t, 2 * n + 2).bag # <<>>
          /\ DidAt(t, m).kind = "split" /\ Len(DidAt(t, m).tried) = 3
          /\ NodeAt(t, m).params = DidAt(t, m).tried[1].params
          /\ DidAt(t, m).tried[2].varied
          /\ DidAt(t, m).tried[2].info_gain = DidAt(t, m).tried[1].info_gain
          /\ DidAt(t, m).tried[2].params # DidAt(t, m).tried[1].params
          /\ DidAt(t, 2 * m + 1).bag # <<>> /\ DidAt(t, 2 * m + 2).bag # <<>>

\* C20: for every split train() accepts, both child bags are non-empty:
\* the assertion after the partition never fails.
C20_ChildrenNonEmpty ==
    Grew =>
        \A t \in GrownTrees :
            /\ tlog[1].trees[t].nonempty
            /\ \A n \in GrownNodes :
                  DidAt(t, n).kind = "split"
                      => DidAt(t, n).left # <<>> /\ DidAt(t, n).right # <<>>

\* The i-th trial at node n is the one whose parameters and threshold the
\* node stores.
StoredTrial(t, n, i) ==
    /\ NodeAt(t, n).params = DidAt(t, n).tried[i].params
    /\ NodeAt(t, n).thresh = DidAt(t, n).tried[i].thresh

\* The members of the bag of node n whose score in the i-th trial at n was
\* below the threshold of that trial.
LeftInTrial(t, n, i) ==
    SelectSeq(DidAt(t, n).bag,
              LAMBDA id : FeatureScore(TrainId(id), DidAt(t, n).tried[i].params)
                              < DidAt(t, n).tried[i].thresh)

\* C21: among the trials at one node with equal information gain the
\* parameters, the threshold and the scores of the first one are kept: the
\* stored trial has a gain strictly greater than every valid trial before
\* it and at least that of every valid trial after it, and the bag was
\* divided by its scores.
C21_FirstBestKept ==
    Grew =>
        \A t \in GrownTrees : \A n \in GrownNodes :
            DidAt(t, n).kind = "split"
                => \E i \in ValidTrials(t, n) :
                      /\ StoredTrial(t, n, i)
                      /\ DidAt(t, n).left = LeftInTrial(t, n, i)
                      /\ \A j \in ValidTrials(t, n) :
                            IF j < i
                            THEN DidAt(t, n).tried[j].info_gain < DidAt(t, n).tried[i].info_gain
                            ELSE DidAt(t, n).tried[j].info_gain <= DidAt(t, n).tried[i].info_gain

\* Training left a split node that stores its first trial although the
\* second, with other parameters and another threshold, had the same gain, and a split node that stores its third trial, the first
\* having had a smaller gain.
C21_Witness ==
    /\ Grew /\ tlog[1].tin.num_param_combos_to_test = 3
    /\ \E t \in GrownTrees, n \in GrownNodes :
          /\ DidAt(t, n).kind = "split"
          /\ StoredTrial(t, n, 1) /\ ~StoredTrial(t, n, 2)
          /\ DidAt(t, n).tried[2].varied
          /\ DidAt(t, n).tried[2].info_gain = DidAt(t, n).tried[1].info_gain
    /\ \E t \in GrownTrees, n \in GrownNodes :
          /\ DidAt(t, n).kind = "split"
          /\ StoredTrial(t, n, 3) /\ ~StoredTrial(t, n, 1)
          /\ DidAt(t, n).tried[1].varied
          /\ DidAt(t, n).tried[1].info_gain < DidAt(t, n).tried[3].info_gain

\* The root bag of tree t in the training log of object 1.
RootBagAt(t) == tlog[1].trees[t].rootbag

LeafOfSample(t, i) == findLeafSingle(obj[1], TrainId(i), t - 1)

\* The sample i is a member of the bag v.
InBag(v, i) == \E d \in 1..Len(v) : v[d] = i

\* C28: after train() every sample of a tree's root bag, pushed through
\* that tree by findLeafSingle with the scores of training, arrives at a
\* node of the tree that train() fitted as a leaf, whose bag held the
\* sample and whose distribution is the one fitted to that bag.
C28_RoutingConsistent ==
    Grew =>
        \A t \in GrownTrees : \A d \in 1..Len(RootBagAt(t)) :
            /\ LeafOfSample(t, RootBagAt(t)[d]) \in GrownNodes
            /\ DidAt(t, LeafOfSample(t, RootBagAt(t)[d])).kind = "leaf"
            /\ InBag(DidAt(t, LeafOfSample(t, RootBagAt(t)[d])).bag, RootBagAt(t)[d])
            /\ NodeAt(t, LeafOfSample(t, RootBagAt(t)[d])).post
                  = <<FittedAt(t, LeafOfSample(t, RootBagAt(t)[d]))>>

\* Training grew a tree with two levels of split nodes, in which two samples
\* of the root bag part at the root and two part at node 2.
C28_Witness ==
    /\ Grew
    /\ \E t \in GrownTrees : \E i, j, k \in 1..Len(RootBagAt(t)) :
          /\ DidAt(t, 0).kind = "split" /\ DidAt(t, 2).kind = "split"
          /\ LeafOfSample(t, RootBagAt(t)[i]) = 5
          /\ LeafOfSample(t, RootBagAt(t)[j]) = 6
          /\ LeafOfSample(t, RootBagAt(t)[k]) = 1

\* The sorted scores bestSplit was given in the i-th trial at node n.
TrialData(t, n, i) ==
    SortByScore([d \in 1..Len(DidAt(t, n).bag) |->
        scoreInternalIndexStruct(
            FeatureScore(TrainId(DidAt(t, n).bag[d]), DidAt(t, n).tried[i].params),
            DidAt(t, n).bag[d])])

\* What fastDiscreteEntropySplit returned in that trial.
TrialSplit(t, n, i) ==
    fastDiscreteEntropySplit(TrialData(t, n, i), obj[1].n_classes, tlog[1].tin.labels,
                             trainingPrecalculations(obj[1], tlog[1].tin.num_ids).xlogx_precalc)

\* The threshold thresh divides the sorted scores ds after the first k.
DividesAfter(ds, thresh, k) == \A d \in 1..Len(ds) : (ds[d].score < thresh) <=> (d <= k)

\* C29: the threshold bestSplit returns divides the sorted scores (a score
\* below the threshold goes left) into the partition whose impurity was
\* recorded as the best: the first best_d + 1 elements go left, the others
\* right.
C29_ThresholdMatchesPartition ==
    Grew =>
        \A t \in GrownTrees : \A n \in GrownNodes :
            DidAt(t, n).searched =>
                \A i \in ValidTrials(t, n) :
                    /\ TrialSplit(t, n, i).thresh = DidAt(t, n).tried[i].thresh
                    /\ DividesAfter(TrialData(t, n, i), DidAt(t, n).tried[i].thresh,
                                    TrialSplit(t, n, i).best_d + 1)

\* The same for the trials whose two scores next to the cut have a float
\* between them.
C29_ApartScoresMatch ==
    Grew =>
        \A t \in GrownTrees : \A n \in GrownNodes :
            DidAt(t, n).searched =>
                \A i \in ValidTrials(t, n) :
                    (TrialData(t, n, i)[TrialSplit(t, n, i).best_d + 2].score
                        - TrialData(t, n, i)[TrialSplit(t, n, i).best_d + 1].score >= 2)
                    => /\ TrialSplit(t, n, i).thresh = DidAt(t, n).tried[i].thresh
                       /\ DividesAfter(TrialData(t, n, i), DidAt(t, n).tried[i].thresh,
                                       TrialSplit(t, n, i).best_d + 1)

----------------------------------------------------------------------------
(* Combining the trees: object 1 is trained, then predictDistGroupwise and  *)
(* predictDistSingle are called on it, statement by statement. The passes   *)
(* of the loop over the ids run one after the other in                      *)
(* predictDistGroupwise and as parallel workers (#pragma omp parallel for)  *)
(* in predictDistSingle; pass d works on out_it[d] and on its own leaves.   *)

\* The id sequences of the calls.
CombineIds == {<<3>>, <<1, 6>>}

\* The output container the caller passes: it holds the distributions of an
\* earlier use.
UsedDists(o, num) ==
    [d \in 1..num |->
        [n_classes |-> getNumberClasses(o),
         prob |-> [c \in 1..getNumberClasses(o) |-> c * (FloatOne \div 4)]]]

\* The calls made on an output distribution (ghost).
DidReset == [call |-> "reset", t |-> -1]
DidCombine(t) == [call |-> "combineWith", t |-> t]
DidNormalise == [call |-> "normalise", t |-> -1]

\* A loop over the trees that stops one tree early.
treesDoneEarly(o, t) == t >= o.n_trees - 1

\* for(int t = 0; t < n_trees; ++t): the loop over the trees has ended
treesDone(o, t) == t >= o.n_trees

\* The locals of pass d: the leaf reached in each tree, the tree counter of
\* the combining loop, and (ghost) the calls made on out_it[d].
PassLocals(leaves) == [leaves |-> leaves, t |-> 0, ev |-> <<>>]

\* predictDistGroupwise up to its loop over the ids: the leaves of all ids
\* are found tree by tree (the passes of that parallel loop write leaves[t]
\* for their own t only).
PredictGroupwiseBegin(o, ids) ==
    /\ Alive /\ Idle
    /\ calls < MaxCalls
    /\ Usable(o)
    /\ out' = UsedDists(obj[o], Len(ids))
    /\ pc' = [d \in 1..Len(ids) |-> IF d = 1 THEN "reset" ELSE "wait"]
    /\ loc' = [d \in 1..Len(ids) |->
                  PassLocals([t \in 1..obj[o].n_trees |->
                                 findLeavesGroupwise(obj[o], ids, t - 1)[d]])]
    /\ last' = [NoCall EXCEPT !.op = "predictDistGroupwise", !.o = o, !.pre = obj[o],
                              !.ids = ids, !.outpre = UsedDists(obj[o], Len(ids)),
                              !.ret = "running"]
    /\ calls' = calls + 1
    /\ UNCHANGED <<obj, files, tlog, shared, access>>

\* predictDistSingle up to its parallel loop: one worker per pass d.
PredictSingleBegin(o, ids) ==
    /\ Alive /\ Idle
    /\ calls < MaxCalls
    /\ Usable(o)
    /\ out' = UsedDists(obj[o], Len(ids))
    /\ pc' = [d \in 1..Len(ids) |-> "reset"]
    /\ loc' = [d \in 1..Len(ids) |-> PassLocals(<<>>)]
    /\ last' = [NoCall EXCEPT !.op = "predictDistSingle", !.o = o, !.pre = obj[o],
                              !.ids = ids, !.outpre = UsedDists(obj[o], Len(ids)),
                              !.ret = "running"]
    /\ calls' = calls + 1
    /\ UNCHANGED <<obj, files, tlog, shared, access>>

\* Pass d of a running prediction is at the given place.
PassAt(d, place) ==
    /\ last.op \in {"predictDistGroupwise", "predictDistSingle"} /\ last.ret = "running"
    /\ d \in DOMAIN pc /\ pc[d] = place

\* out_it->reset()
PassReset(d) ==
    /\ PassAt(d, "reset")
    /\ out' = [out EXCEPT ![d] = distReset(@)]
    /\ loc' = [loc EXCEPT ![d].ev = Append(@, DidReset)]
    /\ pc' = [pc EXCEPT ![d] = IF last.op = "predictDistSingle" THEN "find" ELSE "combine"]
    /\ UNCHANGED <<obj, files, last, calls, tlog, shared, access>>

\* predictDistSingle: leaves[t] = findLeafSingle(first_id[d], t, ...) for
\* every tree
PassFind(d) ==
    /\ PassAt(d, "find")
    /\ loc' = [loc EXCEPT ![d].leaves =
                  [t \in 1..obj[last.o].n_trees |->
                      findLeafSingle(obj[last.o], last.ids[d], t - 1)]]
    /\ pc' = [pc EXCEPT ![d] = "combine"]
    /\ UNCHANGED <<obj, files, last, calls, tlog, shared, access, out>>

\* out_it->combineWith(*leaves[t], id); ++t
PassCombine(d) ==
    /\ PassAt(d, "combine")
    /\ ~treesDone(obj[last.o], loc[d].t)
    /\ out' = [out EXCEPT ![d] =
                  distCombineWith(@, LeafDist(obj[last.o], loc[d].t,
                                              loc[d].leaves[loc[d].t + 1]))]
    /\ loc' = [loc EXCEPT ![d].t = @ + 1, ![d].ev = Append(@, DidCombine(loc[d].t))]
    /\ UNCHANGED <<obj, files, last, calls, tlog, pc, shared, access>>

\* out_it->normalise() after the loop over the trees; in
\* predictDistGroupwise the next pass starts.
PassNormalise(d) ==
    /\ PassAt(d, "combine")
    /\ treesDone(obj[last.o], loc[d].t)
    /\ out' = [out EXCEPT ![d] = distNormalise(@)]
    /\ loc' = [loc EXCEPT ![d].ev = Append(@, DidNormalise)]
    /\ pc' = [e \in DOMAIN pc |->
                 IF e = d THEN "done"
                 ELSE IF e = d + 1 /\ pc[e] = "wait" THEN "reset" ELSE pc[e]]
    /\ UNCHANGED <<obj, files, last, calls, tlog, shared, access>>

\* The end of the loop over the ids, and the return of the call.
PredictEnd ==
    /\ last.op \in {"predictDistGroupwise", "predictDistSingle"} /\ last.ret = "running"
    /\ \A d \in DOMAIN pc : pc[d] = "done"
    /\ last' = [last EXCEPT !.ret = "done"]
    /\ pc' = <<>>
    /\ UNCHANGED <<obj, files, calls, tlog, loc, shared, access, out>>

InitCombine == InitIO

NextCombine ==
    \/ \E tin \in PlainTrainInputs : Train(1, tin)
    \/ \E ids \in CombineIds : PredictGroupwiseBegin(1, ids)
    \/ \E ids \in CombineIds : PredictSingleBegin(1, ids)
    \/ \E d \in 1..MaxIds : PassReset(d)
    \/ \E d \in 1..MaxIds : PassFind(d)
    \/ \E d \in 1..MaxIds : PassCombine(d)
    \/ \E d \in 1..MaxIds : PassNormalise(d)
    \/ PredictEnd

SpecCombine == InitCombine /\ [][NextCombine]_vars

\* The calls a finished pass has made on its output distribution.
PassCalls(n_trees) ==
    <<DidReset>> \o [t \in 1..n_trees |-> DidCombine(t - 1)] \o <<DidNormalise>>

IsPrefix(v, w) == Len(v) <= Len(w) /\ v = SubSeq(w, 1, Len(v))

\* A prediction is running or has returned.
Predicting == last.op \in {"predictDistGroupwise", "predictDistSingle"}

\* C12: in predictDistGroupwise and predictDistSingle, for every id, the
\* output distribution is reset first, then combined with the leaf
\* distribution of tree t for t = 0 .. T-1 in this order, each tree once,
\* then normalised exactly once: at every moment the calls made on it are a
\* prefix of reset, combineWith(0), ..., combineWith(T-1), normalise, and a
\* finished pass has made all of them and left their result.
C12_CombineOrder ==
    Predicting =>
        \A d \in DOMAIN loc :
            /\ IsPrefix(loc[d].ev, PassCalls(obj[last.o].n_trees))
            /\ (last.ret = "done" \/ (d \in DOMAIN pc /\ pc[d] = "done"))
                  => /\ loc[d].ev = PassCalls(obj[last.o].n_trees)
                     /\ out[d] = distNormalise(
                                    combineLeaves(obj[last.o], distReset(last.outpre[d]),
                                                  loc[d].leaves, 0))

\* A call of predictDistSingle for two ids on a forest of at least two
\* trees has returned, every pass having made all its calls, and the
\* outputs are no longer the distributions the container held.
C12_Witness ==
    /\ last.op = "predictDistSingle" /\ last.ret = "done"
    /\ Len(last.ids) >= 2 /\ obj[last.o].n_trees >= 2
    /\ \A d \in DOMAIN loc : loc[d].ev = PassCalls(obj[last.o].n_trees)
    /\ \A d \in DOMAIN out : out[d] # last.outpre[d]
    /\ out[1] # out[2]

----------------------------------------------------------------------------
(* Raising the temperature: object 1 is trained and written to file A,      *)
(* object 2 reads A, and raiseNodeTemperature is called on either.          *)

\* The temperatures the callers pass: -1, 0 and 2.
Temperatures == {0 - FloatOne, 0, 2 * FloatOne}

\* The nodes whose post[0] raiseNodeTemperature takes: the ones marked leaf.
tempTaken(o) ==
    {a \in [t : 1..o.n_trees, n : 0..(o.n_nodes - 1)] : o.forest[a.t].nodes[a.n + 1].is_leaf}

\* The nodes among them that hold no distribution: post[0] is an element of
\* an empty vector.
tempMissing(o) == {a \in tempTaken(o) : o.forest[a.t].nodes[a.n + 1].post = <<>>}

\* The node loop of raiseNodeTemperature on the nodes that hold a
\* distribution.
tempNode(nd, T) ==
    IF nd.is_leaf /\ nd.post # <<>>
    THEN [nd EXCEPT !.post[1] = raiseDistributionTemperature(@, T)]
    ELSE nd

tempForest(o, T) ==
    [o EXCEPT !.forest = [t \in 1..Len(o.forest) |->
        IF t > o.n_trees THEN o.forest[t]
        ELSE [nodes |-> [n \in 1..Len(o.forest[t].nodes) |->
                 IF n > o.n_nodes THEN o.forest[t].nodes[n]
                 ELSE tempNode(o.forest[t].nodes[n], T)]]]]

\* classifier::raiseNodeTemperature. Calling post[0] of a node without a
\* distribution is undefined: the process dies, or the call works on
\* memory that is no part of the forest.
raiseNodeTemperature(o, T, ub) ==
    IF tempMissing(o) # {} /\ ub = "crash"
    THEN [o |-> o, ret |-> "crash"]
    ELSE [o |-> tempForest(o, T), ret |-> "done"]

Raised(o, T, r) ==
    /\ obj' = [obj EXCEPT ![o] = r.o]
    /\ last' = [NoCall EXCEPT !.op = "raiseNodeTemperature", !.o = o, !.pre = obj[o],
                              !.tin = T, !.ret = r.ret]

RaiseNodeTemperature(o, T, ub) ==
    /\ Alive /\ Idle
    /\ calls < MaxCalls
    /\ Usable(o)
    /\ Raised(o, T, raiseNodeTemperature(obj[o], T, ub))
    /\ access' = tempTaken(obj[o])
    /\ calls' = calls + 1
    /\ UNCHANGED <<files, tlog, pc, loc, shared, out>>

InitTemp == InitIO

NextTemp ==
    \/ \E tin \in PlainTrainInputs : Train(1, tin)
    \/ \E ub \in UBOutcomes : WriteToFile(1, "A", ub)
    \/ ReadFromFile(2, "A", -1, -1)
    \/ \E o \in ObjIds, T \in Temperatures, ub \in UBOutcomes : RaiseNodeTemperature(o, T, ub)

SpecTemp == InitTemp /\ [][NextTemp]_vars

\* The forest o with the softmax of temperature T applied once to the
\* distribution of every leaf that holds one.
SoftmaxOnce(o, T) ==
    [o EXCEPT !.forest = [t \in 1..Len(o.forest) |->
        [nodes |-> [n \in 1..Len(o.forest[t].nodes) |->
            IF o.forest[t].nodes[n].is_leaf /\ o.forest[t].nodes[n].post # <<>>
            THEN [o.forest[t].nodes[n] EXCEPT
                     !.post[1] = distNormalise(distExp(o.forest[t].nodes[n].post[1], T))]
            ELSE o.forest[t].nodes[n]]]]]

\* C15: raiseNodeTemperature(T) on a valid classifier, trained or loaded,
\* applies for T > 0 the softmax with temperature T exactly once to every
\* leaf distribution of every tree and touches no node that holds no
\* distribution (the orphan slots); for T <= 0 it leaves every distribution
\* as it was.
C15_TemperatureLeaves ==
    (last.op = "raiseNodeTemperature")
        => /\ last.ret = "done"
           /\ \A a \in access : last.pre.forest[a.t].nodes[a.n + 1].post # <<>>
           /\ obj[last.o] = IF last.tin > 0 THEN SoftmaxOnce(last.pre, last.tin)
                            ELSE last.pre

Built ==
    (last.op = "train" /\ last.ret = "done") \/ (last.op = "readFromFile" /\ last.ret = "true")

----------------------------------------------------------------------------
(* The split search in double arithmetic. fastDiscreteEntropySplit keeps   *)
(* its partial sums and impurities in variables of type double, and every  *)
(* addition and subtraction of doubles rounds its result to 53 significant *)
(* bits (round to nearest, ties to even). Here a double is the pair        *)
(* <<hi, lo>> that stands for (hi * 2^26 + lo) * 2^-52 with lo in          *)
(* 0 .. 2^26 - 1: every value i*log(i) with i >= 2 is a multiple of 2^-52, *)
(* and so is every sum and difference of such values, rounded or not.      *)

\* The largest number of data points of a call.
MaxData == 6

DoubleBase == 2 ^ 26

DoubleZero == <<0, 0>>

\* The distance between neighbouring doubles around hi * 2^26, in units of
\* 2^-52: 1 below 2.0, 2 below 4.0, 4 below 8.0, 8 below 16.0, 16 above.
doubleSpacing(hi) ==
    IF (IF hi >= 0 THEN hi ELSE 0 - (hi + 1)) < 2 ^ 27 THEN 1
    ELSE IF (IF hi >= 0 THEN hi ELSE 0 - (hi + 1)) < 2 ^ 28 THEN 2
    ELSE IF (IF hi >= 0 THEN hi ELSE 0 - (hi + 1)) < 2 ^ 29 THEN 4
    ELSE IF (IF hi >= 0 THEN hi ELSE 0 - (hi + 1)) < 2 ^ 30 THEN 8
    ELSE 16

\* lo rounded to a multiple of q: to the nearest one, and half way between
\* two to the one that is an even multiple.
roundedLow(lo, q) ==
    IF 2 * (lo % q) < q THEN lo - (lo % q)
    ELSE IF 2 * (lo % q) > q THEN lo - (lo % q) + q
    ELSE IF (lo \div q) % 2 = 0 THEN lo - (lo % q)
    ELSE lo - (lo % q) + q

doubleCarry(hi, lo) == <<hi + (lo \div DoubleBase), lo % DoubleBase>>

\* The double nearest to the exact value <<hi, lo>>
doubleRound(hi, lo) == doubleCarry(hi, roundedLow(lo, doubleSpacing(hi)))

\* The exact sum of two doubles
exactAdd(a, b) == doubleCarry(a[1] + b[1], a[2] + b[2])

\* -a (exact)
doubleNeg(a) == IF a[2] = 0 THEN <<0 - a[1], 0>> ELSE <<0 - a[1] - 1, DoubleBase - a[2]>>

\* a + b, a - b and a < b of doubles
doubleAdd(a, b) == doubleRound(exactAdd(a, b)[1], exactAdd(a, b)[2])
doubleSub(a, b) == doubleAdd(a, doubleNeg(b))
doubleLess(a, b) == a[1] < b[1] \/ (a[1] = b[1] /\ a[2] < b[2])

\* i * std::log(double(i)) for i = 0 .. 8, as doubles
XLogXDoubleTable ==
    << <<0, 0>>, <<0, 0>>, <<93032639, 49953263>>, <<221179868, 461088>>,
       <<372130558, 65595324>>, <<540037749, 61063680>>, <<721457655, 16564240>>,
       <<914114736, 56653920>>, <<1116391676, 62568240>> >>

\* randomForestBase::preCalculateXlogX, the doubles it returns
preCalculateXlogXDouble(N) ==
    IF N < 1 THEN <<>> ELSE [i \in 1..(N + 1) |-> XLogXDoubleTable[i]]

\* std::numeric_limits<float>::max() as a double: above every impurity of
\* the model.
DoubleFloatMax == <<2000000000, 0>>

\* total += xlogx[binned[b]] for b = 0, 1, ... in this order
RECURSIVE sumXlogxFrom(_, _, _, _)
sumXlogxFrom(binned, xlogx, total, b) ==
    IF b > Len(binned) THEN total
    ELSE sumXlogxFrom(binned, xlogx, doubleAdd(total, xlogx[binned[b] + 1]), b + 1)

\* fastDiscreteEntropySplit up to the initial sum of the right partial terms
splitStartDouble(ds, n_labels, labels, xlogx) ==
    [splitStart(ds, n_labels, labels) EXCEPT
        !.left_partial = DoubleZero,
        !.right_partial = sumXlogxFrom(splitStart(ds, n_labels, labels).right_binned,
                                       xlogx, DoubleZero, 1),
        !.best_children_impurity = DoubleFloatMax]

\* (-left_running_total_partial + xlogx_precalc[d+1])
\*     + (-right_running_total_partial + xlogx_precalc[n_data-d-1])
childrenImpurity(s, xlogx, n_data, d) ==
    doubleAdd(doubleAdd(doubleNeg(s.left_partial), xlogx[d + 2]),
              doubleAdd(doubleNeg(s.right_partial), xlogx[n_data - d]))

\* fastDiscreteEntropySplit, the first partition (d = 0)
splitFirstDouble(ds, xlogx, s) ==
    IF ds[1].score = ds[2].score THEN s
    ELSE [s EXCEPT !.best_children_impurity = childrenImpurity(s, xlogx, Len(ds), 0),
                   !.best_d = 0]

\* The loop of fastDiscreteEntropySplit: the running partial sums follow
\* the histograms.
splitMovePartialsDouble(s, b, xlogx) ==
    [s EXCEPT !.left_partial =
                  doubleAdd(@, doubleSub(xlogx[s.left_binned[b + 1] + 1],
                                         xlogx[s.left_binned[b + 1]])),
              !.right_partial =
                  doubleAdd(@, doubleSub(xlogx[s.right_binned[b + 1] + 1],
                                         xlogx[s.right_binned[b + 1] + 2]))]

\* A pass that keeps the last of the partitions with the smallest impurity.
splitKeepBestDoubleOrEqual(s, d, this_children_impurity) ==
    IF ~doubleLess(s.best_children_impurity, this_children_impurity)
    THEN [s EXCEPT !.best_children_impurity = this_children_impurity, !.best_d = d]
    ELSE s

\* The loop of fastDiscreteEntropySplit: the impurity of the partition
\* after data point d replaces the best one if it is smaller.
splitKeepBestDouble(s, d, this_children_impurity) ==
    IF doubleLess(this_children_impurity, s.best_children_impurity)
    THEN [s EXCEPT !.best_children_impurity = this_children_impurity, !.best_d = d]
    ELSE s

\* The loop of fastDiscreteEntropySplit: no split between equal scores.
splitConsiderDouble(ds, xlogx, s, d) ==
    IF ds[d + 1].score = ds[d + 2].score THEN s
    ELSE splitKeepBestDouble(s, d, childrenImpurity(s, xlogx, Len(ds), d))

\* A pass of the loop of fastDiscreteEntropySplit for data point d, up to
\* the comparison of the scores
splitMovedDouble(ds, labels, xlogx, s, d) ==
    splitMovePartialsDouble(splitMoveBins(s, labels[ds[d + 1].id + 1]),
                            labels[ds[d + 1].id + 1], xlogx)

\* One pass of the loop of fastDiscreteEntropySplit, for data point d
splitPassDouble(ds, labels, xlogx, s, d) ==
    splitConsiderDouble(ds, xlogx, splitMovedDouble(ds, labels, xlogx, s, d), d)

\* The impurity the pass for data point d computes from the running sums
\* of s, <<>> when the scores allow no split there (ghost).
thisChildrenImpurity(ds, xlogx, s, d) ==
    IF ds[d + 1].score = ds[d + 2].score THEN <<>>
    ELSE childrenImpurity(s, xlogx, Len(ds), d)

\* The position and the impurity fastDiscreteEntropySplit returns, and
\* whether its assertion holds.
splitResultDouble(ds, s) ==
    [best_d |-> s.best_d,
     asserted |-> (s.best_d >= 0 /\ s.best_d < Len(ds) - 1),
     best_split_impurity |-> s.best_children_impurity]

\* The score-sorted inputs: n_data points with the ids 0 .. n_data-1, the
\* score of each equal to the one before it or greater by one, and not all
\* scores equal.
SortedData(n_data) ==
    {[i \in 1..n_data |->
         [id |-> i - 1,
          score |-> Cardinality({j \in 1..(i - 1) : ~same[j]}) * FloatOne]] :
        same \in ([1..(n_data - 1) -> BOOLEAN] \ {[j \in 1..(n_data - 1) |-> TRUE]})}

SplitLabelCounts == {1, 2}

SplitInputs ==
    UNION {{[data_structs |-> ds, n_labels |-> k, labels |-> labels] :
               ds \in SortedData(n), labels \in [1..n -> 0..(k - 1)]} :
           n \in 2..MaxData, k \in SplitLabelCounts}

SplitAt(place) == last.op = "fastDiscreteEntropySplit" /\ last.ret = place

\* fastDiscreteEntropySplit up to the start of its loop
EntropySplitBegin ==
    /\ SplitAt("called")
    /\ loc' = [s |-> splitFirstDouble(last.tin.data_structs, shared,
                         splitStartDouble(last.tin.data_structs, last.tin.n_labels,
                                          last.tin.labels, shared)),
               d |-> 0]
    /\ pc' = <<thisChildrenImpurity(last.tin.data_structs, shared,
                   splitStartDouble(last.tin.data_structs, last.tin.n_labels,
                                    last.tin.labels, shared), 0)>>
    /\ last' = [last EXCEPT !.ret = "running"]
    /\ UNCHANGED <<obj, files, calls, tlog, shared, access, out>>

\* The pass of the loop for the next data point. The impurity of the
\* partition is remembered when the scores allow a split there (ghost, pc).
EntropySplitPass ==
    /\ SplitAt("running")
    /\ loc.d + 1 < Len(last.tin.data_structs) - 1
    /\ loc' = [s |-> splitPassDouble(last.tin.data_structs, last.tin.labels, shared,
                                     loc.s, loc.d + 1),
               d |-> loc.d + 1]
    /\ pc' = Append(pc, thisChildrenImpurity(last.tin.data_structs, shared,
                            splitMovedDouble(last.tin.data_structs, last.tin.labels,
                                             shared, loc.s, loc.d + 1),
                            loc.d + 1))
    /\ UNCHANGED <<obj, files, last, calls, tlog, shared, access, out>>

\* The end of the loop: the assertion and the values returned.
EntropySplitReturn ==
    /\ SplitAt("running")
    /\ loc.d + 1 >= Len(last.tin.data_structs) - 1
    /\ out' = splitResultDouble(last.tin.data_structs, loc.s)
    /\ last' = [last EXCEPT !.ret = "done"]
    /\ UNCHANGED <<obj, files, calls, tlog, pc, loc, shared, access>>

\* The call is made with every input; xlogx_precalc is in shared.
InitSplit ==
    /\ obj = <<>> /\ files = <<>> /\ tlog = <<>>
    /\ \E in \in SplitInputs :
          /\ last = [NoCall EXCEPT !.op = "fastDiscreteEntropySplit", !.tin = in,
                                   !.ret = "called"]
          /\ shared = preCalculateXlogXDouble(Len(in.data_structs))
    /\ calls = 0
    /\ pc = <<>> /\ loc = <<>> /\ access = {} /\ out = <<>>

NextSplit == EntropySplitBegin \/ EntropySplitPass \/ EntropySplitReturn

SpecSplit == InitSplit /\ [][NextSplit]_vars

\* The brute-force reference: the histograms of the data points 0 .. d and
\* d+1 .. N-1 counted from scratch, the sums of their x*log(x) terms, and
\* the impurity xlogx[d+1] - sum left + xlogx[N-d-1] - sum right.
LeftRecount(d) ==
    [b \in 1..last.tin.n_labels |->
        Cardinality({i \in 1..(d + 1) :
                        last.tin.labels[last.tin.data_structs[i].id + 1] = b - 1})]

RightRecount(d) ==
    [b \in 1..last.tin.n_labels |->
        Cardinality({i \in (d + 2)..Len(last.tin.data_structs) :
                        last.tin.labels[last.tin.data_structs[i].id + 1] = b - 1})]

LeftRecountSum(d) == sumXlogxFrom(LeftRecount(d), shared, DoubleZero, 1)
RightRecountSum(d) == sumXlogxFrom(RightRecount(d), shared, DoubleZero, 1)

ReferenceImpurity(d) ==
    doubleSub(doubleAdd(doubleSub(shared[d + 2], LeftRecountSum(d)),
                        shared[Len(last.tin.data_structs) - d]),
              RightRecountSum(d))

\* The positions between two different scores.
SplitPositions ==
    {d \in 0..(Len(last.tin.data_structs) - 2) :
        last.tin.data_structs[d + 1].score # last.tin.data_structs[d + 2].score}

\* The first of the positions with the smallest value of F.
FirstMinimum(F(_)) ==
    CHOOSE d \in SplitPositions :
        \A e \in SplitPositions :
            IF e < d THEN doubleLess(F(d), F(e)) ELSE ~doubleLess(F(e), F(d))

\* The impurity the loop computed at position d from its running sums.
RunningImpurity(d) == pc[d + 1]

\* a and b differ by at most tol * 2^-52.
Within(a, b, tol) ==
    \/ exactAdd(a, doubleNeg(b))[1] = 0 /\ exactAdd(a, doubleNeg(b))[2] <= tol
    \/ exactAdd(a, doubleNeg(b))[1] = -1
           /\ DoubleBase - exactAdd(a, doubleNeg(b))[2] <= tol

\* The rounding errors of the additions that lead to an impurity add up to
\* less than (4N + 2K + 8) * N^2 * 2^-52: each is at most 2^-53 times its
\* result, and no result exceeds 2 * N * log(N) < 2 * N^2.
SplitTolerance ==
    (4 * Len(last.tin.data_structs) + 2 * last.tin.n_labels + 8)
        * Len(last.tin.data_structs) * Len(last.tin.data_structs)

\* C23 (as stated): fastDiscreteEntropySplit returns the position and the
\* children impurity of the brute-force reference, and at every step of
\* its loop the running partial sums equal the sums of the x*log(x) terms
\* of the recounted left and right histograms.
C23_FastEqualsBruteForce ==
    /\ SplitAt("running")
          => /\ loc.s.left_partial = LeftRecountSum(loc.d)
             /\ loc.s.right_partial = RightRecountSum(loc.d)
    /\ SplitAt("done")
          => /\ out.best_d = FirstMinimum(ReferenceImpurity)
             /\ out.best_split_impurity = ReferenceImpurity(FirstMinimum(ReferenceImpurity))

\* C23 (amended): at every step of the loop the running histograms equal
\* the recounted ones and the running partial sums equal the recounted
\* sums up to the rounding of the double additions; the position returned
\* is the first one that minimises the impurity formed from the running
\* sums, the impurity returned is that impurity, every such impurity is
\* the reference's up to rounding, and the reference's impurity at the
\* position returned is within twice the rounding error of its minimum.
C23_FastWithinRounding ==
    /\ SplitAt("running")
          => /\ loc.s.left_binned = LeftRecount(loc.d)
             /\ loc.s.right_binned = RightRecount(loc.d)
             /\ Within(loc.s.left_partial, LeftRecountSum(loc.d), SplitTolerance)
             /\ Within(loc.s.right_partial, RightRecountSum(loc.d), SplitTolerance)
    /\ SplitAt("done")
          => /\ out.asserted
             /\ out.best_d = FirstMinimum(RunningImpurity)
             /\ out.best_split_impurity = RunningImpurity(out.best_d)
             /\ \A d \in SplitPositions :
                   Within(RunningImpurity(d), ReferenceImpurity(d), SplitTolerance)
             /\ Within(ReferenceImpurity(out.best_d),
                       ReferenceImpurity(FirstMinimum(ReferenceImpurity)),
                       2 * SplitTolerance)

\* The search returned a position other than the reference's, with an
\* impurity other than the reference's at that position, after a loop
\* whose running sum for the right side is not the recounted one.
C23_Witness ==
    /\ SplitAt("done") /\ out.asserted
    /\ out.best_d # FirstMinimum(ReferenceImpurity)
    /\ out.best_split_impurity # ReferenceImpurity(out.best_d)
    /\ loc.s.right_partial # RightRecountSum(loc.d)

----------------------------------------------------------------------------
(* The circular regressor: the sweep of circularRegressor::bestSplit over  *)
(* its trial thresholds, one trial per step. The labels are the angles 0   *)
(* and pi/2, whose cosines and sines are 1, 0 and 0, 1: the cumulative sum *)
(* of the cosines counts the labels 0 and the one of the sines the labels  *)
(* pi/2. The scores lie between 0 and 100, so that the trial thresholds    *)
(* are the integers 1 .. 99.                                               *)

\* circularRegressor::C_NUM_SPLIT_TRIALS
C_NUM_SPLIT_TRIALS == 100

\* The sum over c labels 0 and s labels pi/2 of the squared circular
\* distance (0.5 * (1 - cos(label - mean)))^2 from their circular mean
\* atan2(s, c), in units of 1e-7, at [c + 1][s + 1].
SsdTable ==
    << <<0, 0, 0, 0, 0, 0>>,
       <<0, 428932, 819660, 1188612, 1443296, 1620287>>,
       <<0, 819660, 857864, 1203013, 1639320, 2039693>>,
       <<0, 1188612, 1203013, 1286797, 1600000, 2021711>>,
       <<0, 1443296, 1639320, 1600000, 1715729, 2008769>>,
       <<0, 1620287, 2039693, 2021711, 2008769, 2144661>> >>

\* The labels: 0 stands for the angle 0 and 1 for the angle pi/2.
cosOf(label) == IF label = 0 THEN 1 ELSE 0
sinOf(label) == IF label = 0 THEN 0 ELSE 1

\* cumcos[d] and cumsin[d] of bestSplit (d from 0)
cumcos(ds, labels, d) == Cardinality({i \in 1..(d + 1) : cosOf(labels[ds[i].id + 1]) = 1})
cumsin(ds, labels, d) == Cardinality({i \in 1..(d + 1) : sinOf(labels[ds[i].id + 1]) = 1})

\* ssd_left and ssd_right of bestSplit for Nl data points on the left
ssdLeft(ds, labels, Nl) ==
    SsdTable[cumcos(ds, labels, Nl - 1) + 1][cumsin(ds, labels, Nl - 1) + 1]

ssdRight(ds, labels, Nl) ==
    SsdTable[cumcos(ds, labels, Len(ds) - 1) - cumcos(ds, labels, Nl - 1) + 1]
            [cumsin(ds, labels, Len(ds) - 1) - cumsin(ds, labels, Nl - 1) + 1]

\* circularRegressor::singleNodeImpurity of all the data points
circularNodeImpurity(ds, labels) ==
    SsdTable[cumcos(ds, labels, Len(ds) - 1) + 1][cumsin(ds, labels, Len(ds) - 1) + 1]

\* const double split_thresh = minval + h*hspace
splitThresh(ds, h) ==
    ds[1].score + h * ((ds[Len(ds)].score - ds[1].score) \div C_NUM_SPLIT_TRIALS)

\* while( split_it->score < split_thresh ) ++split_it
RECURSIVE advanceSplit(_, _, _)
advanceSplit(ds, split_it, split_thresh) ==
    IF ds[split_it + 1].score < split_thresh
    THEN advanceSplit(ds, split_it + 1, split_thresh)
    ELSE split_it

\* The outcomes of a < b for two sums of squared distances: the sums of the
\* program carry the rounding of its doubles, so that sums which are equal
\* here, or one unit apart, can compare either way.
lessOutcomes(a, b) ==
    IF a + 1 < b THEN {TRUE} ELSE IF a > b + 1 THEN {FALSE} ELSE BOOLEAN

\* bestSplit before its loop
circularStart ==
    [h |-> 1, split_it |-> 0, best_impurity |-> FloatMax, thresh |-> 0 - 1,
     plateau_flag |-> FALSE, plateau_start_thresh |-> 0 - 1, did |-> "none"]

\* A plateau that leaves the threshold where the best trial put it.
plateauThreshKept(s, split_thresh) == s.thresh

\* if(plateau_flag) thresh = (split_thresh + plateau_start_thresh)/2.0
plateauThresh(s, split_thresh) ==
    IF s.plateau_flag THEN (split_thresh + s.plateau_start_thresh) \div 2 ELSE s.thresh

\* A trial whose threshold does not split the data in a new way
circularSame(s, split_thresh) ==
    [s EXCEPT !.thresh = plateauThresh(s, split_thresh), !.h = @ + 1, !.did = "same"]

\* A trial whose threshold splits the data in a new way, at split_it, and
\* whose impurity is or is not the best so far
circularMoved(s, split_thresh, split_it, impurity, better) ==
    IF better
    THEN [s EXCEPT !.split_it = split_it, !.best_impurity = impurity,
                   !.thresh = split_thresh, !.plateau_flag = TRUE,
                   !.plateau_start_thresh = split_thresh, !.h = @ + 1,
                   !.did = "improved"]
    ELSE [s EXCEPT !.split_it = split_it, !.plateau_flag = FALSE, !.h = @ + 1,
                   !.did = "moved"]

\* The inputs: score-sorted data points with the ids 0 .. n-1, the first
\* score 0 and the last 100.
CircularScores == {0, FloatOne, 50 * FloatOne, 99 * FloatOne + FloatOne \div 2, 100 * FloatOne}

CircularData(n) ==
    {[i \in 1..n |-> [id |-> i - 1, score |-> sc[i]]] :
        sc \in {v \in [1..n -> CircularScores] :
                   /\ v[1] = 0 /\ v[n] = 100 * FloatOne
                   /\ \A i \in 1..(n - 1) : v[i] <= v[i + 1]}}

CircularInputs ==
    UNION {{[data_structs |-> ds, labels |-> labels] :
               ds \in CircularData(n), labels \in [1..n -> {0, 1}]} :
           n \in 2..NumSamples}

CircularAt(place) == last.op = "bestSplit" /\ last.ret = place

\* bestSplit up to the start of its loop
CircularBegin ==
    /\ CircularAt("called")
    /\ loc' = circularStart
    /\ last' = [last EXCEPT !.ret = "running"]
    /\ UNCHANGED <<obj, files, calls, tlog, pc, shared, access, out>>

\* A pass of the loop that ends at its continue statement
CircularTrialSame ==
    /\ CircularAt("running")
    /\ loc.h < C_NUM_SPLIT_TRIALS
    /\ last.tin.data_structs[loc.split_it + 1].score >= splitThresh(last.tin.data_structs, loc.h)
    /\ loc' = circularSame(loc, splitThresh(last.tin.data_structs, loc.h))
    /\ UNCHANGED <<obj, files, last, calls, tlog, pc, shared, access, out>>

\* A pass of the loop that moves the split iterator
CircularTrialMoved ==
    /\ CircularAt("running")
    /\ loc.h < C_NUM_SPLIT_TRIALS
    /\ last.tin.data_structs[loc.split_it + 1].score < splitThresh(last.tin.data_structs, loc.h)
    /\ \E better \in lessOutcomes(
              ssdLeft(last.tin.data_structs, last.tin.labels,
                      advanceSplit(last.tin.data_structs, loc.split_it,
                                   splitThresh(last.tin.data_structs, loc.h)))
              + ssdRight(last.tin.data_structs, last.tin.labels,
                         advanceSplit(last.tin.data_structs, loc.split_it,
                                      splitThresh(last.tin.data_structs, loc.h))),
              loc.best_impurity) :
          loc' = circularMoved(loc, splitThresh(last.tin.data_structs, loc.h),
                     advanceSplit(last.tin.data_structs, loc.split_it,
                                  splitThresh(last.tin.data_structs, loc.h)),
                     ssdLeft(last.tin.data_structs, last.tin.labels,
                             advanceSplit(last.tin.data_structs, loc.split_it,
                                          splitThresh(last.tin.data_structs, loc.h)))
                     + ssdRight(last.tin.data_structs, last.tin.labels,
                                advanceSplit(last.tin.data_structs, loc.split_it,
                                             splitThresh(last.tin.data_structs, loc.h))),
                     better)
    /\ UNCHANGED <<obj, files, last, calls, tlog, pc, shared, access, out>>

\* The end of the loop: info_gain = initial_impurity - best_impurity
CircularReturn ==
    /\ CircularAt("running")
    /\ loc.h >= C_NUM_SPLIT_TRIALS
    /\ out' = [info_gain |-> circularNodeImpurity(last.tin.data_structs, last.tin.labels)
                                 - loc.best_impurity,
               thresh |-> loc.thresh]
    /\ last' = [last EXCEPT !.ret = "done"]
    /\ UNCHANGED <<obj, files, calls, tlog, pc, loc, shared, access>>

\* bestSplit is called with every input.
InitCircular ==
    /\ obj = <<>> /\ files = <<>> /\ tlog = <<>>
    /\ \E in \in CircularInputs :
          last = [NoCall EXCEPT !.op = "bestSplit", !.tin = in, !.ret = "called"]
    /\ calls = 0
    /\ pc = <<>> /\ loc = <<>> /\ shared = <<>> /\ access = {} /\ out = <<>>

NextCircular ==
    CircularBegin \/ CircularTrialSame \/ CircularTrialMoved \/ CircularReturn

SpecCircular == InitCircular /\ [][NextCircular]_vars

\* A step of the loop: the trial with the threshold TrialThresh.
CircularTrial == CircularAt("running") /\ loc'.h = loc.h + 1
TrialThresh == splitThresh(last.tin.data_structs, loc.h)

\* C24 (as stated): a strictly improving trial stores its threshold and
\* opens a new plateau; the stored threshold is moved to the midpoint of
\* the plateau, which lies between its start and the threshold of the
\* trial before, by the next trial that moves the split iterator, and is
\* left alone by the trials that leave the split iterator where it is.
C24_PlateauOnNextSplit ==
    [][CircularTrial =>
          /\ loc'.did = "improved"
                => /\ loc'.thresh = TrialThresh
                   /\ loc'.plateau_flag /\ loc'.plateau_start_thresh = TrialThresh
          /\ loc'.split_it = loc.split_it => loc'.thresh = loc.thresh
          /\ (loc'.did = "moved" /\ loc.plateau_flag)
                => loc'.thresh
                     = (loc.plateau_start_thresh
                          + splitThresh(last.tin.data_structs, loc.h - 1)) \div 2]_vars

\* C24 (amended): a strictly improving trial stores its threshold and
\* opens a new plateau; while the plateau is open every trial that leaves
\* the split iterator where it is moves the stored threshold to the
\* midpoint between its own threshold and the start of the plateau; a
\* trial that moves the split iterator without improving closes the
\* plateau and leaves the stored threshold alone.
C24_PlateauOnSameSplit ==
    [][CircularTrial =>
          /\ loc'.did = "improved"
                => /\ loc'.split_it # loc.split_it
                   /\ loc'.thresh = TrialThresh
                   /\ loc'.plateau_flag /\ loc'.plateau_start_thresh = TrialThresh
          /\ loc'.split_it = loc.split_it
                => /\ loc'.did = "same"
                   /\ loc'.plateau_flag = loc.plateau_flag
                   /\ loc'.plateau_start_thresh = loc.plateau_start_thresh
                   /\ loc'.best_impurity = loc.best_impurity
                   /\ loc'.thresh = IF loc.plateau_flag
                                    THEN (TrialThresh + loc.plateau_start_thresh) \div 2
                                    ELSE loc.thresh
          /\ loc'.did = "moved"
                => /\ loc'.split_it # loc.split_it
                   /\ ~loc'.plateau_flag
                   /\ loc'.thresh = loc.thresh
                   /\ loc'.best_impurity = loc.best_impurity]_vars

\* The sweep is over: a trial that did not improve closed a plateau whose
\* threshold the trials before it had moved away from its start, and the
\* last trials, which left the split iterator where it was, did not move
\* the threshold again.
C24_Witness ==
    /\ CircularAt("done")
    /\ loc.did = "same" /\ ~loc.plateau_flag
    /\ loc.thresh > loc.plateau_start_thresh
    /\ loc.thresh < 99 * FloatOne
    /\ out.thresh = loc.thresh

\* The thresholds of the circular regressor, taken as the doubles bestSplit
\* computes (thresh holds them without loss here): the threshold an
\* improving trial stores divides the sorted scores at the split iterator of
\* that trial, and every midpoint a plateau puts in its place divides them
\* in the same way.
CircularThresholdKeepsPartition ==
    [][CircularTrial =>
          /\ loc'.did = "improved"
                => DividesAfter(last.tin.data_structs, loc'.thresh, loc'.split_it)
          /\ loc'.did # "improved"
                => \A d \in 1..Len(last.tin.data_structs) :
                      (last.tin.data_structs[d].score < loc'.thresh)
                          <=> (last.tin.data_structs[d].score < loc.thresh)]_vars

----------------------------------------------------------------------------
(* The von Mises distribution of the circular regressor. The labels are    *)
(* the angles 0 and pi/2 again; angles, kappa and the sums S and C are     *)
(* floats of the model. The normaliser 1/(2*pi*I0(kappa)) is kept as the   *)
(* kappa it was computed for: I0 grows strictly with kappa and is at least *)
(* 1, so two such normalisers are equal exactly when their kappas are, and *)
(* none of them is the 1.0 that initialise() stores.                       *)

\* The angles atan2(s, c) for s labels pi/2 and c labels 0, the same angles
\* as printed, and their sines and cosines: <<angle, sin, cos>>.
TrigTable ==
    { <<0, 0, 10000000>>,
      <<15707964, 10000000, 0>>,        <<15708000, 10000000, -37>>,
      <<7853982, 7071068, 7071068>>,    <<7853980, 7071067, 7071069>>,
      <<4636476, 4472136, 8944272>>,    <<4636480, 4472139, 8944270>>,
      <<11071488, 8944272, 4472136>>,   <<11071500, 8944278, 4472124>>,
      <<3217506, 3162278, 9486833>>,    <<3217510, 3162282, 9486832>>,
      <<12490457, 9486833, 3162278>>,   <<12490500, 9486846, 3162238>>,
      <<2449787, 2425356, 9701425>>,    <<2449790, 2425360, 9701424>>,
      <<5880026, 5547002, 8320503>>,    <<5880030, 5547005, 8320501>>,
      <<9827937, 8320503, 5547002>>,    <<9827940, 8320504, 5547000>>,
      <<13258177, 9701425, 2425356>>,   <<13258200, 9701431, 2425334>> }

sinAngle(a) == (CHOOSE e \in TrigTable : e[1] = a)[2]
cosAngle(a) == (CHOOSE e \in TrigTable : e[1] = a)[3]

\* The angles atan2 returns: the ones of the table that are not printed.
Atan2Angles ==
    <<0, 15707964, 7853982, 4636476, 11071488, 3217506, 12490457, 2449787,
      5880026, 9827937, 13258177>>

\* How far the direction of the angle a is from the one of (C, S)
crossWith(S, C, a) ==
    IF MulFloat(S, cosAngle(a)) >= MulFloat(C, sinAngle(a))
    THEN MulFloat(S, cosAngle(a)) - MulFloat(C, sinAngle(a))
    ELSE MulFloat(C, sinAngle(a)) - MulFloat(S, cosAngle(a))

\* std::atan2(S, C) for sums S, C >= 0: the angle whose direction is
\* nearest to (C, S); atan2(0, 0) = 0.
RECURSIVE atan2From(_, _, _, _, _)
atan2From(S, C, i, best, cross) ==
    IF i > Len(Atan2Angles) THEN best
    ELSE IF crossWith(S, C, Atan2Angles[i]) < cross
         THEN atan2From(S, C, i + 1, Atan2Angles[i], crossWith(S, C, Atan2Angles[i]))
         ELSE atan2From(S, C, i + 1, best, cross)

atan2Of(S, C) == IF S = 0 THEN 0 ELSE atan2From(S, C, 2, 0, crossWith(S, C, 0))

\* The whole part of the square root of x
RECURSIVE sqrtFrom(_, _)
sqrtFrom(x, r) == IF (r + x \div r) \div 2 >= r THEN r ELSE sqrtFrom(x, (r + x \div r) \div 2)
sqrtOf(x) == IF x < 2 THEN x ELSE sqrtFrom(x, x)

\* std::hypot(S, C), to four decimals below 3, to three below 30 and to
\* two above
hypotScaled(S, C, q) == sqrtOf((S \div q) * (S \div q) + (C \div q) * (C \div q)) * q
hypotOf(S, C) ==
    IF S < 3 * FloatOne /\ C < 3 * FloatOne THEN hypotScaled(S, C, 1000)
    ELSE IF S < 30 * FloatOne /\ C < 30 * FloatOne THEN hypotScaled(S, C, 10000)
    ELSE hypotScaled(S, C, 100000)

\* The solution kappa of I1(kappa) / I0(kappa) = Re that the solver
\* returns, for c labels 0 and s labels pi/2 (Re = sqrt(c^2 + s^2) / (c + s))
solveKappa(c, s) ==
    CASE c = s -> 20582154
      [] 2 * c = s \/ c = 2 * s -> 23314962
      [] 3 * c = s \/ c = 3 * s -> 27602329
      [] 4 * c = s \/ c = 4 * s -> 32136955
      [] 3 * c = 2 * s \/ 2 * c = 3 * s -> 21512361
      [] OTHER -> 0

\* 1.0 / (2.0 * M_PI * boost::math::cyl_bessel_i(0, kappa))
besselNormaliser(kappa) == [bessel |-> kappa]

\* vonMisesDistribution::vonMisesDistribution and ::initialise
vonMisesDefault == [mu |-> 0, kappa |-> 0, S |-> 0, C |-> 0, pdf_normaliser |-> [value |-> FloatOne]]
vonMisesInitialise(d) == vonMisesDefault

\* vonMisesDistribution::fit with the sums S and C of the sines and cosines
\* of n_data labels: Re > 0.98 as 2500 * R2 > 2401 * n_data^2
vonMisesFitted(d, S, C, n_data) ==
    IF 2500 * ((S \div FloatOne) * (S \div FloatOne) + (C \div FloatOne) * (C \div FloatOne))
           > 2401 * n_data * n_data
    THEN [d EXCEPT !.S = S, !.C = C, !.mu = atan2Of(S, C), !.kappa = 25 * FloatOne]
    ELSE [d EXCEPT !.S = S, !.C = C, !.mu = atan2Of(S, C),
                   !.kappa = solveKappa(C \div FloatOne, S \div FloatOne),
                   !.pdf_normaliser =
                       besselNormaliser(solveKappa(C \div FloatOne, S \div FloatOne))]

\* vonMisesDistribution::fit
vonMisesFit(d, labels) ==
    vonMisesFitted(d,
        FloatOne * Cardinality({i \in 1..Len(labels) : sinOf(labels[i]) = 1}),
        FloatOne * Cardinality({i \in 1..Len(labels) : cosOf(labels[i]) = 1}),
        Len(labels))

\* vonMisesDistribution::pdf at the angle 0: the normaliser and the
\* exponent kappa * cos(0 - mu) of the value it returns
vonMisesPdf(d) == [normaliser |-> d.pdf_normaliser, exponent |-> MulFloat(d.kappa, cosAngle(d.mu))]

\* vonMisesDistribution::printOut
vonMisesPrintOut(d) == <<Num(PrintFloat(d.mu)), Num(PrintFloat(d.kappa))>>

\* vonMisesDistribution::readIn
vonMisesReadIn(d, tokens) ==
    [d EXCEPT !.mu = tokens[1].n, !.kappa = tokens[2].n,
              !.S = sinAngle(tokens[1].n), !.C = cosAngle(tokens[1].n),
              !.pdf_normaliser = besselNormaliser(tokens[2].n)]

\* The distribution d with the vector of the length dist.kappa in the
\* direction dist.mu added to its sums.
vonMisesCombineUnit(d, dist) ==
    [d EXCEPT !.S = @ + MulFloat(dist.kappa, sinAngle(dist.mu)),
              !.C = @ + MulFloat(dist.kappa, cosAngle(dist.mu))]

\* vonMisesDistribution::combineWith
vonMisesCombineWith(d, dist) ==
    [d EXCEPT !.S = @ + MulFloat(dist.kappa, dist.S),
              !.C = @ + MulFloat(dist.kappa, dist.C)]

\* vonMisesDistribution::normalise (cyl_bessel_i does not overflow for the
\* kappa of the model, which stay below 214)
vonMisesNormalise(d) ==
    [d EXCEPT !.mu = atan2Of(d.S, d.C), !.kappa = hypotOf(d.S, d.C),
              !.pdf_normaliser = besselNormaliser(hypotOf(d.S, d.C))]

\* The distributions of the program: the one of a leaf, the one the leaf is
\* read back into and an output distribution.
VmNames == {"leaf", "back", "output"}

\* The labels of a leaf: 0 for the angle 0, 1 for the angle pi/2.
VmLabels == UNION {[1..n -> {0, 1}] : n \in 1..NumSamples}

VmCall(op, o, arg) ==
    /\ calls < MaxCalls
    /\ calls' = calls + 1
    /\ last' = [NoCall EXCEPT !.op = op, !.f = o, !.pre = obj[o], !.tin = arg,
                              !.ret = "done"]
    /\ tlog' = [tlog EXCEPT ![o] = op]
    /\ UNCHANGED <<pc, loc, shared, access, out>>

\* fitLeaf: initialiseNodeDist(t, n) before post[0].fit(...)
VmInitialise(o) ==
    /\ VmCall("initialise", o, <<>>)
    /\ obj[o] # vonMisesDefault
    /\ obj' = [obj EXCEPT ![o] = vonMisesInitialise(@)]
    /\ UNCHANGED files

VmFit(labels) ==
    /\ VmCall("fit", "leaf", labels)
    /\ obj' = [obj EXCEPT !["leaf"] = vonMisesFit(@, labels)]
    /\ UNCHANGED files

\* writeToFile prints the distribution of the leaf (what it printed is
\* remembered in src, ghost)
VmPrintOut ==
    /\ VmCall("printOut", "leaf", <<>>)
    /\ files' = [tokens |-> vonMisesPrintOut(obj["leaf"]), src |-> obj["leaf"]]
    /\ UNCHANGED obj

\* readFromFile reads it into a distribution made by the constructor
VmReadIn ==
    /\ files # <<>>
    /\ VmCall("readIn", "back", files.tokens)
    /\ obj' = [obj EXCEPT !["back"] = vonMisesReadIn(@, files.tokens)]
    /\ UNCHANGED files

\* predictDist*: the output distribution is combined with a distribution
\* that was fitted or read (as long as its sums stay floats of the model) ...
VmCombineWith(o) ==
    /\ VmCall("combineWith", "output", obj[o])
    /\ tlog[o] \in {"fit", "readIn"}
    /\ obj["output"].S < 80 * FloatOne /\ obj["output"].C < 80 * FloatOne
    /\ MulFloat(obj[o].kappa, obj[o].S) < 130 * FloatOne
    /\ MulFloat(obj[o].kappa, obj[o].C) < 130 * FloatOne
    /\ obj' = [obj EXCEPT !["output"] = vonMisesCombineWith(@, obj[o])]
    /\ UNCHANGED files

\* ... and normalised
VmNormalise ==
    /\ VmCall("normalise", "output", <<>>)
    /\ obj' = [obj EXCEPT !["output"] = vonMisesNormalise(@)]
    /\ UNCHANGED files

InitVonMises ==
    /\ obj = [o \in VmNames |-> vonMisesDefault]
    /\ files = <<>>
    /\ last = NoCall
    /\ calls = 0
    /\ tlog = [o \in VmNames |-> "none"]
    /\ pc = <<>> /\ loc = <<>> /\ shared = <<>> /\ access = {} /\ out = <<>>

NextVonMises ==
    \/ \E o \in VmNames : VmInitialise(o)
    \/ \E labels \in VmLabels : VmFit(labels)
    \/ VmPrintOut
    \/ VmReadIn
    \/ \E o \in {"leaf", "back"} : VmCombineWith(o)
    \/ VmNormalise

SpecVonMises == InitVonMises /\ [][NextVonMises]_vars

\* Two floats that differ by less than the precision of a printed number
\* allows.
VmNear(a, b) == a - b \in (0 - 10000)..10000

\* The leaf was fitted and printed, and the other distribution was read
\* from what was printed.
ReadBack ==
    /\ tlog["leaf"] = "fit" /\ tlog["back"] = "readIn"
    /\ files # <<>> /\ files.src = obj["leaf"]
    /\ obj["back"].mu = files.tokens[1].n /\ obj["back"].kappa = files.tokens[2].n

\* C25: after fit, readIn and normalise the cached normaliser is the one
\* of the current kappa, 1/(2*pi*I0(kappa)), and the pdf of a fitted leaf
\* is the pdf of the leaf read back from what writeToFile printed of it
\* (as far as the printed numbers go).
C25_NormaliserCoherent ==
    /\ \A o \in VmNames :
          tlog[o] \in {"fit", "readIn", "normalise"}
              => obj[o].pdf_normaliser = besselNormaliser(obj[o].kappa)
    /\ ReadBack
          => /\ "bessel" \in DOMAIN vonMisesPdf(obj["leaf"]).normaliser
             /\ VmNear(vonMisesPdf(obj["leaf"]).normaliser.bessel,
                       vonMisesPdf(obj["back"]).normaliser.bessel)
             /\ VmNear(vonMisesPdf(obj["leaf"]).exponent, vonMisesPdf(obj["back"]).exponent)

\* C26: combineWith(other) adds to S and C a vector of the length
\* other.kappa in the direction other.mu, whether other was fitted or
\* read, and so a fitted leaf and the same leaf read back add the same
\* vector (as far as the printed numbers go).
C26_CombineWeight ==
    /\ last.op = "combineWith"
          => obj["output"] = vonMisesCombineUnit(last.pre, last.tin)
    /\ ReadBack
          => /\ VmNear(MulFloat(obj["leaf"].kappa, obj["leaf"].S),
                       MulFloat(obj["back"].kappa, obj["back"].S))
             /\ VmNear(MulFloat(obj["leaf"].kappa, obj["leaf"].C),
                       MulFloat(obj["back"].kappa, obj["back"].C))

----------------------------------------------------------------------------
(* Walking the trees of trained and of loaded forests: object 1 is trained  *)
(* and written to file A, the level count of A may be rewritten by hand,    *)
(* object 2 reads A, and findLeafSingle and findLeavesGroupwise are called  *)
(* on either object.                                                        *)

\* File f holds the lines writeToFile wrote.
AsWritten(f) ==
    /\ files[f].exists /\ ~files[f].crashed
    /\ files[f].lines = writeToFile(files[f].src[1], "garbage").lines

\* The level count on the dimensions line of file f is rewritten as a
\* smaller number; every token of the file still parses.
EditLevels(f, levels) ==
    /\ Alive /\ Idle
    /\ AsWritten(f)
    /\ levels < FileLevels(files[f])
    /\ files' = [files EXCEPT ![f].lines[5][2] = Num(PrintInt(levels))]
    /\ UNCHANGED <<obj, last, calls, tlog, pc, loc, shared, access, out>>

\* The trees of object o that a caller may walk.
TreeNums(o) == 0..(obj[o].n_trees - 1)

\* The walk of findLeafSingle stays in the node array of the tree.
WalkInside(o, id, treenum) == findLeafSingle(o, id, treenum) >= 0

\* The walk of findLeavesGroupwise stays in the node array of the tree (else
\* a bag past the end of nodebag_rel is written).
WalksInside(o, ids, treenum) ==
    \A d \in 1..Len(ids) : findLeavesGroupwise(o, ids, treenum)[d] >= 0

Walked(o, op, ids, treenum, inside, ub) ==
    /\ last' = [NoCall EXCEPT !.op = op, !.o = o, !.pre = obj[o], !.ids = ids,
                              !.tin = treenum,
                              !.ret = IF inside THEN "done" ELSE ub]
    /\ calls' = calls + 1
    /\ UNCHANGED <<obj, files, tlog, pc, loc, shared, access>>

\* findLeafSingle(id, treenum). A walk that leaves the node array reads
\* is_leaf past the end of nodes: the process dies, or the read gives true
\* and the address of post[0] of that place is returned.
FindLeafSingle(o, id, treenum, ub) ==
    /\ Alive /\ Idle
    /\ calls < MaxCalls
    /\ Usable(o)
    /\ treenum \in TreeNums(o)
    /\ out' = <<findLeafSingle(obj[o], id, treenum)>>
    /\ Walked(o, "findLeafSingle", <<id>>, treenum, WalkInside(obj[o], id, treenum), ub)

\* findLeavesGroupwise(first_id, last_id, treenum, leaves). A walk that
\* leaves the node array writes a bag past the end of nodebag_rel: the
\* process dies, or the ids of that bag get no leaf.
FindLeavesGroupwise(o, ids, treenum, ub) ==
    /\ Alive /\ Idle
    /\ calls < MaxCalls
    /\ Usable(o)
    /\ treenum \in TreeNums(o)
    /\ out' = findLeavesGroupwise(obj[o], ids, treenum)
    /\ Walked(o, "findLeavesGroupwise", ids, treenum, WalksInside(obj[o], ids, treenum), ub)

\* The ids of the single walks.
WalkIds == {0, 3, 6}

InitWalk == InitIO

NextWalk ==
    \/ \E tin \in PlainTrainInputs : Train(1, tin)
    \/ \E ub \in UBOutcomes : WriteToFile(1, "A", ub)
    \/ \E levels \in 0..(MaxLevels - 1) : EditLevels("A", levels)
    \/ \E a \in PredictLoadArgs : ReadFromFile(2, "A", a[1], a[2])
    \/ \E o \in ObjIds, id \in WalkIds, t \in 0..(MaxTrees - 1), ub \in UBOutcomes :
          FindLeafSingle(o, id, t, ub)
    \/ \E o \in ObjIds, ids \in IdSeqs, t \in 0..(MaxTrees - 1), ub \in UBOutcomes :
          FindLeavesGroupwise(o, ids, t, ub)

SpecWalk == InitWalk /\ [][NextWalk]_vars

\* The number of comparisons findLeafSingle makes to arrive at node n: the
\* level of n.
RECURSIVE ComparisonsTo(_)
ComparisonsTo(n) == IF n <= 0 THEN 0 ELSE 1 + ComparisonsTo(ParentOf(n))

\* Node n of tree treenum is in the node array, is a leaf and holds a
\* distribution.
LeafWithDist(o, treenum, n) ==
    /\ IsLeafAt(o, treenum, n)
    /\ n < Pow2(o.n_levels + 1) - 1
    /\ ComparisonsTo(n) <= o.n_levels
    /\ o.forest[treenum + 1].nodes[n + 1].post # <<>>

\* C27: on a valid forest (trained, or loaded from a file whose tokens all
\* parse) findLeafSingle returns, after at most n_levels comparisons, a leaf
\* of index < 2^(n_levels+1) - 1 that holds a distribution, and
\* findLeavesGroupwise stays inside the node array and gives every id such
\* a leaf.
C27_TraversalSafe ==
    (last.op \in {"findLeafSingle", "findLeavesGroupwise"})
        => /\ last.ret = "done"
           /\ \A d \in 1..Len(last.ids) : LeafWithDist(obj[last.o], last.tin, out[d])

\* The same, for trained forests and for forests loaded from a file that
\* writeToFile wrote and that was not rewritten.
C27_WrittenFilesSafe ==
    (/\ last.op \in {"findLeafSingle", "findLeavesGroupwise"}
     /\ (last.o = 2 => AsWritten("A")))
        => /\ last.ret = "done"
           /\ \A d \in 1..Len(last.ids) : LeafWithDist(obj[last.o], last.tin, out[d])

----------------------------------------------------------------------------
(* Loading into objects with a past: object 1 may be given class names, is  *)
(* trained and written to file A; either object, freshly constructed,       *)
(* trained or loaded before, reads A.                                       *)

InitReload == InitIO

NextReload ==
    \/ SetClassNames(1)
    \/ \E tin \in PlainTrainInputs : Train(1, tin)
    \/ \E ub \in UBOutcomes : WriteToFile(1, "A", ub)
    \/ \E o \in ObjIds, a \in PredictLoadArgs : ReadFromFile(o, "A", a[1], a[2])

SpecReload == InitReload /\ [][NextReload]_vars

\* What writeToFile prints of the forest o, for each way its undefined
\* reads can end.
WrittenBy(o) == {[ub |-> ub, lines |-> writeToFile(o, ub).lines] : ub \in UBOutcomes}

\* The distribution findLeafSingle returns for id in tree treenum.
LeafReached(o, id, treenum) ==
    IF findLeafSingle(o, id, treenum) < 0 THEN <<>>
    ELSE o.forest[treenum + 1].nodes[findLeafSingle(o, id, treenum) + 1].post

\* What a caller can see of the forest o: the file writeToFile prints, the
\* class names and the class count, the leaf every id reaches in every
\* tree, and how raiseNodeTemperature ends and what is printed after it.
Observable(o) ==
    [written |-> WrittenBy(o),
     names |-> getClassNames(o),
     classes |-> getNumberClasses(o),
     leaves |-> [t \in 1..o.n_trees |-> [id \in WalkIds |-> LeafReached(o, id, t - 1)]],
     raised |-> {[T |-> T, ub |-> ub, ret |-> raiseNodeTemperature(o, T, ub).ret,
                  written |-> WrittenBy(raiseNodeTemperature(o, T, ub).o)] :
                    T \in Temperatures, ub \in UBOutcomes}]

\* The forest a freshly constructed object holds after the last load.
FreshLoad ==
    readFromFile(DefaultObject(0, 1), files[last.f], last.trees_used, last.max_depth_used)

\* C30: after a successful readFromFile what can be seen of the forest (the
\* output of writeToFile, the class names and the class count, the leaf
\* every id reaches, the effect of raiseNodeTemperature) is what a freshly
\* constructed object shows after reading the same file with the same
\* arguments, whatever the object held before the call.
C30_LoadForgetsPast ==
    (last.op = "readFromFile" /\ last.ret = "true")
        => /\ FreshLoad.ret
           /\ Observable(obj[last.o]) = Observable(FreshLoad.o)

\* The same for the loads into an object that was not trained and not
\* loaded before.
C30_FirstLoadOfFreshObject ==
    (/\ last.op = "readFromFile" /\ last.ret = "true"
     /\ tlog[last.o].loads = 1 /\ tlog[last.o].trees = <<>>)
        => /\ FreshLoad.ret
           /\ Observable(obj[last.o]) = Observable(FreshLoad.o)

\* The same without the class names and without raiseNodeTemperature.
C30_FileAndLeavesForgetPast ==
    (last.op = "readFromFile" /\ last.ret = "true" /\ last.pre.class_names = <<>>)
        => /\ FreshLoad.ret
           /\ Observable(obj[last.o]).written = Observable(FreshLoad.o).written
           /\ Observable(obj[last.o]).classes = Observable(FreshLoad.o).classes
           /\ Observable(obj[last.o]).leaves = Observable(FreshLoad.o).leaves

====
